---- MODULE Spec2Model ----
(***************************************************************************)
(* Model of the CloudWatch log cache of mcp-servers:                       *)
(*   src/src/cache-manager.js          shard addressing, download, search, *)
(*                                     prune                               *)
(*   src/src/servers/cloudwatch-logs.js  POST /search and POST /download   *)
(*   src/unnamed/part_003 (index.js)   prune on startup, then the server   *)
(*                                                                         *)
(* One Node.js process: a handler runs without interruption between two    *)
(* awaits, so every action below is one synchronous stretch of a handler.  *)
(* The file system is the cache directory: canonical shard files           *)
(* (<safe>/<date>.log), temporary files (<safe>/<date>.log.tmp) and the    *)
(* group directories.                                                      *)
(***************************************************************************)
EXTENDS Integers, Sequences, FiniteSets, TLC

\* ---------------------------------------------------------------- constants

\* 24 * 60 * 60 * 1000, the length of a shard's fetch window
DayMs == 86400000

MAX_CACHE_AGE_DAYS == 10

\* The remote's page size (events per FilterLogEvents response)
PageSize == 2

\* nextToken === undefined
NoToken == 0

\* a field that a JavaScript object does not have
Undefined == -1

NoError == "none"

\* ---------------------------------------------------------------- inputs

\* Log group identifiers are character sequences
GA == <<"a", "/", "b">>
GB == <<"a", ".", "b">>
GC == <<"c">>
GD == <<"d">>
\* the empty name, and the names of the two directory entries every
\* directory has
NoName == <<>>
Dot == <<".">>
DotDot == <<".", ".">>

\* 60 * 60 * 1000
HourMs == DayMs \div 24
HalfHourMs == DayMs \div 48

AllGroups == {GA, GB, GC}

D1 == DayMs
D2 == 2 * DayMs
D3 == 3 * DayMs

Body(kind, groups, startTime, endTime, force, pattern) ==
  [kind |-> kind, logGroupNames |-> groups, startTime |-> startTime,
   endTime |-> endTime, force |-> force, filterPattern |-> pattern]

\* The request bodies a slot may receive.  An empty group list and a start
\* time of 0 (a missing bound) are the malformed ones; the empty pattern is
\* "no pattern".
Bodies(r) ==
  IF r = "r1"
  THEN { Body("download", <<GA>>, D1, D3 - 1, FALSE, <<>>),
         Body("download", <<GA>>, D1, D3 - 1, TRUE, <<>>),
         Body("search", <<GA>>, D1, D3 - 1, FALSE, <<>>),
         Body("download", <<>>, D1, D2 - 1, FALSE, <<>>),
         Body("search", <<GA>>, 0, D2 - 1, FALSE, <<>>) }
  ELSE { Body("download", <<GA>>, D1, D2 - 1, TRUE, <<>>),
         Body("search", <<GA>>, D1, D2 - 1, FALSE, <<"E">>),
         Body("download", <<GB>>, D1, D2 - 1, FALSE, <<>>) }

Reqs == {"r1", "r2"}

\* the message of the error a failing remote call rejects with
ErrMsgs == {"ThrottlingException"}

\* offsets (local time minus UTC) of the process's time zone
TimeZones == {0}

\* the instants `new Date()` may yield when the process starts
BootTimes == {3 * DayMs + 5, 12 * DayMs + 5}

Ev(t, m) == [timestamp |-> t, message |-> m]

\* What the remote holds for a log group, in the order it returns it.
\* Version 2 is the remote after its data changed.
RemoteEvents(g, v) ==
  IF g = GA THEN
    IF v = 1
    THEN << Ev(D1 + 7, <<"E", "x">>), Ev(D1 + 5, <<"o", "k">>),
            Ev(D1 + 7, <<"E", "y">>), Ev(D2 + 1, <<"o", "k">>) >>
    ELSE << Ev(D2 + 1, <<"o", "k">>), Ev(D2 + 9, <<"E", "z">>) >>
  ELSE IF g = GB THEN
    IF v = 1 THEN << Ev(D1 + 3, <<"b">>) >> ELSE << >>
  ELSE IF g = GD THEN
    << Ev(D2 + 5, <<"m">>), Ev(D3 - 3 * HalfHourMs, <<"s">>),
       Ev(D3 + 15 * HalfHourMs, <<"f">>) >>
  ELSE IF g = NoName THEN
    << >>
  ELSE IF g = Dot \/ g = DotDot THEN
    << Ev(D1 + 8, g) >>
  ELSE
    << Ev(D3 + 3, <<"c", "3">>), Ev(D1 + 4, <<"E", "c">>),
       Ev(D2 + 2, <<"c">>), Ev(D3 + 1, <<"c">>),
       Ev(D1 + 4, <<"E", "c">>), Ev(D3 + 3, <<"c", "4">>) >>

\* ---------------------------------------------------------------- helpers

Min(a, b) == IF a < b THEN a ELSE b

RECURSIVE Flatten(_)
\* allEvents.push(...page) over a list of pages
Flatten(pages) ==
  IF pages = <<>> THEN <<>> ELSE Head(pages) \o Flatten(Tail(pages))

RECURSIVE SumSeq(_)
SumSeq(s) == IF s = <<>> THEN 0 ELSE Head(s) + SumSeq(Tail(s))

RECURSIVE Digits(_)
\* number of decimal digits of a non-negative integer
Digits(n) == IF n < 10 THEN 1 ELSE 1 + Digits(n \div 10)

\* ---------------------------------------------------------------- shard addressing

\* the characters of the class [a-zA-Z0-9_-]
AllowedChars ==
  {"a", "b", "c", "d", "e", "f", "g", "h", "i", "j", "k", "l", "m",
   "n", "o", "p", "q", "r", "s", "t", "u", "v", "w", "x", "y", "z",
   "A", "B", "C", "D", "E", "F", "G", "H", "I", "J", "K", "L", "M",
   "N", "O", "P", "Q", "R", "S", "T", "U", "V", "W", "X", "Y", "Z",
   "0", "1", "2", "3", "4", "5", "6", "7", "8", "9", "_", "-"}

\* faulty variant: a character outside the class is removed
sanitizeLogGroupName_Drop(logGroupName) ==
  SelectSeq(logGroupName, LAMBDA ch: ch \in AllowedChars)

\* logGroupName.replace(/[^a-zA-Z0-9_-]/g, '_')
sanitizeLogGroupName(logGroupName) ==
  [i \in 1..Len(logGroupName) |->
     IF logGroupName[i] \in AllowedChars THEN logGroupName[i] ELSE "_"]

\* faulty variant: the instant is rounded to the nearest day
DateString_Rounded(date) == (date + DayMs \div 2) \div DayMs

\* date.toISOString().split('T')[0]: the UTC calendar day of the instant,
\* held as the number of the day
DateString(date) == date \div DayMs

\* The path of a shard below CACHE_DIR: <<directory name, day>>.  The
\* temporary file of a shard has the same key in tmps.
LogFilePath(logGroupName, date) ==
  <<sanitizeLogGroupName(logGroupName), DateString(date)>>

\* faulty variant: the directory is made anew, and empty, on every call
ensureLogGroupDir_Recreate(w, logGroupName) ==
  LET sanitizedName == sanitizeLogGroupName(logGroupName)
  IN [w EXCEPT !.dirs = @ \cup {sanitizedName}, !.root = TRUE,
               !.files = [p \in {x \in DOMAIN w.files : x[1] # sanitizedName}
                            |-> w.files[p]]]

\* ensureLogGroupDir: mkdirSync(dir, {recursive: true}) when the directory is
\* absent, which creates CACHE_DIR as well
ensureLogGroupDir(w, logGroupName) ==
  LET sanitizedName == sanitizeLogGroupName(logGroupName)
  IN IF sanitizedName \in w.dirs
     THEN w
     ELSE [w EXCEPT !.dirs = @ \cup {sanitizedName}, !.root = TRUE]

\* ---------------------------------------------------------------- serialisation

\* JSON.stringify(event): one line of a shard
Stringify(event) ==
  [k |-> "json", ts |-> event.timestamp, msg |-> event.message]

\* a zero-length line
BlankLine == [k |-> "blank", ts |-> 0, msg |-> <<>>]

\* allEvents.map(event => JSON.stringify(event)).join('\n'), as its lines
LogData(allEvents) == [i \in 1..Len(allEvents) |-> Stringify(allEvents[i])]

\* JSON.parse(line) succeeds
Parses(line) == line.k = "json"

\* JSON.parse(line)
Parse(line) == [timestamp |-> line.ts, message |-> line.msg]

\* bytes of one line: {"timestamp":<digits>,"message":"<chars>"}
LineBytes(line) ==
  IF line.k = "json" THEN 27 + Digits(line.ts) + Len(line.msg) ELSE Len(line.msg)

\* fs.statSync(path).size: the lines and the newlines between them
FileSize(content) ==
  IF content = <<>> THEN 0
  ELSE SumSeq([i \in 1..Len(content) |-> LineBytes(content[i])]) + (Len(content) - 1)

RECURSIVE TrimLeft(_)
TrimLeft(content) ==
  IF content # <<>> /\ Head(content).k = "blank"
  THEN TrimLeft(Tail(content)) ELSE content

RECURSIVE TrimRight(_)
TrimRight(content) ==
  IF content # <<>> /\ content[Len(content)].k = "blank"
  THEN TrimRight(SubSeq(content, 1, Len(content) - 1)) ELSE content

\* faulty variant: fileContent.split('\n').length, which is 1 for an empty file
CountLines_NoTrim(content) == IF content = <<>> THEN 1 ELSE Len(content)

\* fileContent.trim() === '' ? 0 : fileContent.trim().split('\n').length
CountLines(content) ==
  LET trimmed == TrimRight(TrimLeft(content))
  IN IF trimmed = <<>> THEN 0 ELSE Len(trimmed)

\* ---------------------------------------------------------------- the remote

\* the events of a group that fall into [startTime, endTime]
InWindow(g, startTime, endTime, v) ==
  SelectSeq(RemoteEvents(g, v),
            LAMBDA e: e.timestamp >= startTime /\ e.timestamp <= endTime)

\* client.send(new FilterLogEventsCommand({logGroupName, startTime, endTime,
\* nextToken})): one page and the token of the next, if any
RemoteFetch(g, startTime, endTime, nextToken, v) ==
  LET all == InWindow(g, startTime, endTime, v)
      pageNo == IF nextToken = NoToken THEN 1 ELSE nextToken
      first == (pageNo - 1) * PageSize + 1
      last == Min(pageNo * PageSize, Len(all))
  IN [events |-> SubSeq(all, first, last),
      nextToken |-> IF pageNo * PageSize < Len(all) THEN pageNo + 1 ELSE NoToken]

\* ---------------------------------------------------------------- state

VARIABLES
  files,      \* canonical shard files: path -> lines (the domain is what exists)
  tmps,       \* temporary files: path of the shard -> lines
  dirs,       \* the group directories below CACHE_DIR
  req,        \* per request slot: the handler's locals and its position
  phase,      \* "boot": index.js has not yet pruned; "starting": it has, and
              \* loads the server module; "serving": the server runs
  clock,      \* Date.now()
  remoteVer,  \* which data the remote currently holds
  tz,         \* the process's time zone offset
  root,       \* CACHE_DIR exists
  strays,     \* entries below CACHE_DIR that the program did not write
  prunedCount \* the files the last run of pruneCache has removed

vars == <<files, tmps, dirs, req, phase, clock, remoteVer, tz, root, strays,
          prunedCount>>

\* the cache directory as the synchronous code of a handler sees and changes it
\* (replaced, truncated: the canonical paths whose inode the code has replaced
\* by a rename, or cut to length 0 in place, during the current stretch)
World == [files |-> files, tmps |-> tmps, dirs |-> dirs,
          root |-> root, strays |-> strays, prunedCount |-> prunedCount,
          replaced |-> {}, truncated |-> {}]

Without(f, p) == [x \in (DOMAIN f) \ {p} |-> f[x]]

With(f, p, c) == [x \in (DOMAIN f) \cup {p} |-> IF x = p THEN c ELSE f[x]]

NoReader == [open |-> FALSE, linked |-> FALSE, buf |-> <<>>,
             snap |-> <<>>, got |-> <<>>, news |-> {}]

NoDl == [ok |-> TRUE, eventsCount |-> 0, fileSizeBytes |-> 0, error |-> NoError]

NoResp == [code |-> 0, status |-> "none", events |-> <<>>,
           summary |-> [totalDates |-> 0, downloaded |-> 0, skipped |-> 0,
                        empty |-> 0, errors |-> 0]]

\* a slot with no request in it
Idle ==
  [pc |-> "idle", kind |-> "none",
   groups |-> <<>>, startTime |-> 0, endTime |-> 0, force |-> FALSE, pattern |-> <<>>,
   gi |-> 1, di |-> 1,
   acc |-> <<>>, token |-> NoToken, dl |-> NoDl,
   results |-> <<>>, required |-> <<>>,
   fi |-> 1, rd |-> NoReader, matching |-> <<>>,
   resp |-> NoResp,
   \* what the client has from its earlier calls, when it sends a sequence
   \* of calls
   prev |-> <<>>,
   \* history of the current shard visit, kept for the properties only
   seen |-> "none", cleaned |-> FALSE,
   sent |-> <<>>, returned |-> <<>>, rx |-> <<>>, rxVers |-> {}, failed |-> FALSE]

\* ---------------------------------------------------------------- dates

\* The zones are named by their offset (local time minus UTC) at the epoch.
\* Two of them change their clocks at 02:00 local time of the third day:
\* UTC+1 goes forward by an hour, UTC-7 goes back by an hour.
SummerZone == HourMs
WinterZone == 0 - 7 * HourMs

\* the instant at which the zone of the process changes its clocks, and by
\* how much (by = 0: never)
ClockChange ==
  IF tz = SummerZone THEN [at |-> D2 + HourMs, by |-> HourMs]
  ELSE IF tz = WinterZone THEN [at |-> D2 + 9 * HourMs, by |-> 0 - HourMs]
  ELSE [at |-> 0, by |-> 0]

\* local time minus UTC at the instant t, in the zone of the process
OffsetAt(t) ==
  IF ClockChange.by # 0 /\ t >= ClockChange.at THEN tz + ClockChange.by ELSE tz

\* the number of the local calendar day that holds t (getDate and its month
\* and year)
LocalDayOf(t) == (t + OffsetAt(t)) \div DayMs

\* the instant at which the local day d begins (00:00:00.000 local time)
MidnightOfDay(d) ==
  IF OffsetAt(d * DayMs - tz) = tz
  THEN d * DayMs - tz
  ELSE d * DayMs - (tz + ClockChange.by)

\* currentDate.setDate(currentDate.getDate() + 1): the same local time of
\* the next calendar day
NextMidnight(currentDate) == MidnightOfDay(LocalDayOf(currentDate) + 1)

\* currentDate.setHours(0, 0, 0, 0): local midnight of the day of t
LocalMidnight(t) == MidnightOfDay(LocalDayOf(t))

RECURSIVE DatesFrom_ExclusiveEnd(_, _)
\* faulty variant: a day that starts exactly at endTime is left out
DatesFrom_ExclusiveEnd(currentDate, endTime) ==
  IF currentDate < endTime
  THEN <<currentDate>> \o DatesFrom_ExclusiveEnd(NextMidnight(currentDate), endTime)
  ELSE <<>>

RECURSIVE DatesFrom(_, _)
\* while (currentDate.getTime() <= endTime) { push; setDate(getDate() + 1) }
DatesFrom(currentDate, endTime) ==
  IF currentDate <= endTime
  THEN <<currentDate>> \o DatesFrom(NextMidnight(currentDate), endTime)
  ELSE <<>>

getDateRange(startTime, endTime) == DatesFrom(LocalMidnight(startTime), endTime)

\* the shard the request is at
CurGroup(q) == q.groups[q.gi]
CurDate(q) == getDateRange(q.startTime, q.endTime)[q.di]
CurPath(q) == LogFilePath(CurGroup(q), CurDate(q))

\* ---------------------------------------------------------------- Downloader

\* faulty variant: only the page just received is kept
Accumulate_LastPage(allEvents, response) == response.events

\* allEvents.push(...(response.events || []))
Accumulate(allEvents, response) == allEvents \o response.events

\* faulty variant: the drain ends with its first page
NextTokenOf_None(response) == NoToken

\* nextToken = response.nextToken
NextTokenOf(response) == response.nextToken

\* faulty variant: the data is written under the canonical name as well
WriteTemp_InPlace(w, p, logData) ==
  [w EXCEPT !.tmps = With(@, p, logData), !.files = With(@, p, logData)]

\* fs.writeFileSync(tempPath, logData)
WriteTemp(w, p, logData) == [w EXCEPT !.tmps = With(@, p, logData)]

\* faulty variant: the new data is added to what the canonical file holds
RenameTemp_Append(w, p) ==
  [w EXCEPT !.files = With(@, p, IF p \in DOMAIN w.files
                                 THEN w.files[p] \o w.tmps[p] ELSE w.tmps[p]),
            !.tmps = Without(@, p),
            !.replaced = @ \cup {p}]

\* fs.renameSync(tempPath, finalPath)
RenameTemp(w, p) ==
  [w EXCEPT !.files = With(@, p, w.tmps[p]), !.tmps = Without(@, p),
            !.replaced = @ \cup {p}]

\* faulty variant: the marker is written only when the shard is absent
WriteEmpty_KeepExisting(w, p) ==
  IF p \in DOMAIN w.files THEN w ELSE [w EXCEPT !.files = With(@, p, <<>>)]

\* faulty variant: nothing is written when the drain found no event
WriteEmpty_Nothing(w, p) == w

\* fs.writeFileSync(finalPath, ''): creates the file, or truncates it in place
WriteEmpty(w, p) ==
  [w EXCEPT !.files = With(@, p, <<>>),
            !.truncated = IF p \in DOMAIN w.files THEN @ \cup {p} ELSE @]

\* faulty variant: the data is copied to the canonical file and the
\* temporary file stays
PublishShard_KeepTemp(w, logGroupName, date, allEvents) ==
  LET w1 == ensureLogGroupDir(w, logGroupName)
      finalPath == LogFilePath(logGroupName, date)
  IN IF Len(allEvents) > 0
     THEN [WriteTemp(w1, finalPath, LogData(allEvents))
             EXCEPT !.files = With(@, finalPath, LogData(allEvents)),
                    !.replaced = @ \cup {finalPath}]
     ELSE WriteEmpty(w1, finalPath)

\* downloadAndCacheLogs after the drain: getLogFilePath, then the write
PublishShard(w, logGroupName, date, allEvents) ==
  LET w1 == ensureLogGroupDir(w, logGroupName)
      finalPath == LogFilePath(logGroupName, date)
  IN IF Len(allEvents) > 0
     THEN RenameTemp(WriteTemp(w1, finalPath, LogData(allEvents)), finalPath)
     ELSE WriteEmpty(w1, finalPath)

\* what downloadAndCacheLogs returns
DownloadResult(w, logGroupName, date, allEvents) ==
  [ok |-> TRUE,
   eventsCount |-> Len(allEvents),
   fileSizeBytes |-> IF Len(allEvents) > 0
                     THEN FileSize(w.files[LogFilePath(logGroupName, date)])
                     ELSE 0,
   error |-> NoError]

\* faulty variant: the catch block saves what the drain has so far
DrainThrows_KeepPartial(w, q, msg) ==
  [w |-> WriteTemp(w, LogFilePath(q.groups[q.gi],
                      getDateRange(q.startTime, q.endTime)[q.di]), LogData(q.acc)),
   q |-> [q EXCEPT !.pc = "resume", !.failed = TRUE,
                   !.dl = [ok |-> FALSE, eventsCount |-> Undefined,
                           fileSizeBytes |-> Undefined, error |-> msg]]]

\* client.send rejects inside the drain: the catch block of
\* downloadAndCacheLogs logs and rethrows; allEvents is dropped with the frame
DrainThrows(w, q, msg) ==
  [w |-> w,
   q |-> [q EXCEPT !.pc = "resume", !.failed = TRUE,
                   !.dl = [ok |-> FALSE, eventsCount |-> Undefined,
                           fileSizeBytes |-> Undefined, error |-> msg]]]

\* faulty variant: the canonical file is removed along with the leftover
CleanTemp_AndShard(w, p) ==
  IF p \in DOMAIN w.tmps
  THEN [w EXCEPT !.tmps = Without(@, p),
                 !.files = [x \in (DOMAIN w.files) \ {p} |-> w.files[x]]]
  ELSE w

\* faulty variant: a leftover temporary file is not looked for
CleanTemp_Skip(w, p) == w

\* if (fs.existsSync(tempFilePath)) fs.unlinkSync(tempFilePath)
CleanTemp(w, p) ==
  IF p \in DOMAIN w.tmps THEN [w EXCEPT !.tmps = Without(@, p)] ELSE w

\* what the visit of a shard finds under the canonical name
SeenAt(w, p) ==
  IF p \notin DOMAIN w.files THEN "absent"
  ELSE IF w.files[p] = <<>> THEN "empty" ELSE "complete"

\* the call of downloadAndCacheLogs up to its first await
StartDrain(q, w0, w, p) ==
  [q EXCEPT !.pc = "fetch", !.acc = <<>>, !.token = NoToken,
            !.seen = SeenAt(w, p), !.cleaned = (p \in DOMAIN w0.tmps),
            !.sent = <<>>, !.returned = <<>>, !.rx = <<>>, !.rxVers = {}]

\* ---------------------------------------------------------------- POST /download

\* faulty variant: an entry without eventsCount counts as empty
Summary_EmptyCountsErrors(results) ==
  [totalDates |-> Len(results),
   downloaded |-> Len(SelectSeq(results, LAMBDA e: e.status = "downloaded")),
   skipped |-> Len(SelectSeq(results, LAMBDA e: e.status = "skipped")),
   empty |-> Len(SelectSeq(results, LAMBDA e: e.eventsCount <= 0)),
   errors |-> Len(SelectSeq(results, LAMBDA e: e.status = "error"))]

\* the summary object of the report
Summary(results) ==
  [totalDates |-> Len(results),
   downloaded |-> Len(SelectSeq(results, LAMBDA e: e.status = "downloaded")),
   skipped |-> Len(SelectSeq(results, LAMBDA e: e.status = "skipped")),
   empty |-> Len(SelectSeq(results, LAMBDA e: e.eventsCount = 0)),
   errors |-> Len(SelectSeq(results, LAMBDA e: e.status = "error"))]

\* res.json({status, results, summary})
Report(results) ==
  [code |-> 200,
   status |-> IF Summary(results).errors > 0 THEN "partial" ELSE "completed",
   events |-> <<>>,
   summary |-> Summary(results)]

\* the entry of a shard that is already cached and not forced
SkippedEntry(w, logGroupName, date) ==
  LET filePath == LogFilePath(logGroupName, date)
  IN [logGroupName |-> logGroupName, date |-> DateString(date),
      status |-> "skipped",
      eventsCount |-> CountLines(w.files[filePath]),
      fileSizeBytes |-> FileSize(w.files[filePath]),
      error |-> NoError]

\* the entry pushed after downloadAndCacheLogs returned or threw
DownloadedEntry(w, logGroupName, date, dl) ==
  LET filePath == LogFilePath(logGroupName, date)
      fileSizeBytes == IF filePath \in DOMAIN w.files
                       THEN FileSize(w.files[filePath]) ELSE 0
  IN IF dl.ok
     THEN [logGroupName |-> logGroupName, date |-> DateString(date),
           status |-> "downloaded",
           eventsCount |-> dl.eventsCount,
           fileSizeBytes |-> IF dl.fileSizeBytes # 0
                             THEN dl.fileSizeBytes ELSE fileSizeBytes,
           error |-> NoError]
     ELSE [logGroupName |-> logGroupName, date |-> DateString(date),
           status |-> "error",
           eventsCount |-> Undefined,
           fileSizeBytes |-> Undefined,
           error |-> dl.error]

\* faulty variant: the cache is not consulted
MustDownload_Always(force, alreadyCached) == TRUE

\* force || !alreadyCached
MustDownload(force, alreadyCached) == force \/ ~alreadyCached

RECURSIVE DownloadLoop(_, _)
\* The two nested loops of the handler from the shard (q.gi, q.di) on, up to
\* the next await (a download) or to the response.
DownloadLoop(w, q) ==
  LET dates == getDateRange(q.startTime, q.endTime)
  IN IF q.gi > Len(q.groups)
     THEN [w |-> w, q |-> [q EXCEPT !.pc = "done", !.resp = Report(q.results)]]
     ELSE IF q.di > Len(dates)
     THEN DownloadLoop(w, [q EXCEPT !.gi = @ + 1, !.di = 1])
     ELSE LET logGroupName == q.groups[q.gi]
              date == dates[q.di]
              filePath == LogFilePath(logGroupName, date)
              w1 == ensureLogGroupDir(w, logGroupName)
              w2 == CleanTemp(w1, filePath)
              alreadyCached == filePath \in DOMAIN w2.files
          IN IF MustDownload(q.force, alreadyCached)
             THEN [w |-> w2, q |-> StartDrain(q, w1, w2, filePath)]
             ELSE DownloadLoop(w2,
                    [q EXCEPT !.results = Append(@, SkippedEntry(w2, logGroupName, date)),
                              !.di = @ + 1])

\* faulty variant: the first failed download ends the handler
DownloadResume_Abort(w, q) ==
  IF q.dl.ok
  THEN DownloadLoop(w,
         [q EXCEPT !.results = Append(@, DownloadedEntry(w, CurGroup(q), CurDate(q), q.dl)),
                   !.di = @ + 1])
  ELSE LET results == Append(q.results, DownloadedEntry(w, CurGroup(q), CurDate(q), q.dl))
       IN [w |-> w, q |-> [q EXCEPT !.results = results, !.pc = "done",
                                    !.resp = Report(results)]]

\* faulty variant: a failed download is tried again until it succeeds
DownloadResume_Retry(w, q) ==
  IF q.dl.ok
  THEN DownloadLoop(w,
         [q EXCEPT !.results = Append(@, DownloadedEntry(w, CurGroup(q), CurDate(q), q.dl)),
                   !.di = @ + 1])
  ELSE DownloadLoop(w, q)

\* the handler after `await downloadAndCacheLogs(...)`: push the entry, go on
DownloadResume(w, q) ==
  DownloadLoop(w,
    [q EXCEPT !.results = Append(@, DownloadedEntry(w, CurGroup(q), CurDate(q), q.dl)),
              !.di = @ + 1])

\* ---------------------------------------------------------------- POST /search

\* faulty variant: the paths are kept in a list, with their repetitions
AddRequired_Push(required, filePath) == Append(required, filePath)

\* requiredFiles.add(filePath): a Set keeps insertion order and no duplicate
AddRequired(required, filePath) ==
  IF \E i \in 1..Len(required): required[i] = filePath
  THEN required ELSE Append(required, filePath)

RECURSIVE SearchLoop_AlwaysDownload(_, _)
\* faulty variant: every shard of the window is downloaded, cached or not
SearchLoop_AlwaysDownload(w, q) ==
  LET dates == getDateRange(q.startTime, q.endTime)
  IN IF q.gi > Len(q.groups)
     THEN [w |-> w, q |-> [q EXCEPT !.pc = "scan", !.fi = 1, !.rd = NoReader,
                                    !.matching = <<>>]]
     ELSE IF q.di > Len(dates)
     THEN SearchLoop_AlwaysDownload(w, [q EXCEPT !.gi = @ + 1, !.di = 1])
     ELSE LET logGroupName == q.groups[q.gi]
              date == dates[q.di]
              filePath == LogFilePath(logGroupName, date)
              w1 == ensureLogGroupDir(w, logGroupName)
              w2 == CleanTemp(w1, filePath)
          IN [w |-> w2, q |-> StartDrain(q, w1, w2, filePath)]

RECURSIVE SearchLoop(_, _)
\* The two nested loops of the handler from the shard (q.gi, q.di) on, up to
\* the next await: a download, or the call of searchLocalLogs.
SearchLoop(w, q) ==
  LET dates == getDateRange(q.startTime, q.endTime)
  IN IF q.gi > Len(q.groups)
     THEN [w |-> w, q |-> [q EXCEPT !.pc = "scan", !.fi = 1, !.rd = NoReader,
                                    !.matching = <<>>]]
     ELSE IF q.di > Len(dates)
     THEN SearchLoop(w, [q EXCEPT !.gi = @ + 1, !.di = 1])
     ELSE LET logGroupName == q.groups[q.gi]
              date == dates[q.di]
              filePath == LogFilePath(logGroupName, date)
              w1 == ensureLogGroupDir(w, logGroupName)
              w2 == CleanTemp(w1, filePath)
          IN IF filePath \notin DOMAIN w2.files
             THEN [w |-> w2, q |-> StartDrain(q, w1, w2, filePath)]
             ELSE SearchLoop(w2,
                    [q EXCEPT !.required = AddRequired(@, filePath), !.di = @ + 1])

\* res.status(500).send('Error searching logs')
SearchFailure == [NoResp EXCEPT !.code = 500]

\* faulty variant: a failed download is logged and the shard left out
SearchResume_SkipFailed(w, q) ==
  IF q.dl.ok
  THEN SearchLoop(w, [q EXCEPT !.required = AddRequired(@, CurPath(q)), !.di = @ + 1])
  ELSE SearchLoop(w, [q EXCEPT !.di = @ + 1])

\* faulty variant: a failed download takes back the shards the handler has
\* in its path list
SearchResume_Rollback(w, q) ==
  IF q.dl.ok
  THEN SearchLoop(w, [q EXCEPT !.required = AddRequired(@, CurPath(q)), !.di = @ + 1])
  ELSE [w |-> [w EXCEPT !.files =
                 [p \in (DOMAIN w.files) \ {q.required[i] : i \in DOMAIN q.required}
                    |-> w.files[p]]],
        q |-> [q EXCEPT !.pc = "done", !.resp = SearchFailure]]

\* the handler after `await downloadAndCacheLogs(...)`: the catch block when
\* the download threw, the next shard otherwise
SearchResume(w, q) ==
  IF q.dl.ok
  THEN SearchLoop(w, [q EXCEPT !.required = AddRequired(@, CurPath(q)), !.di = @ + 1])
  ELSE [w |-> w, q |-> [q EXCEPT !.pc = "done", !.resp = SearchFailure]]

\* ---------------------------------------------------------------- Searcher

\* filterRegex.test(message) for a pattern without metacharacters: the
\* pattern occurs somewhere in the message
RegexTest(pattern, message) ==
  \E i \in 1..(Len(message) - Len(pattern) + 1):
     SubSeq(message, i, i + Len(pattern) - 1) = pattern

\* faulty variant: the end of the window is not part of it
ScanLine_ExclusiveEnd(matching, line, pattern, startTime, endTime) ==
  IF line.k = "blank" THEN matching
  ELSE IF ~Parses(line) THEN matching
  ELSE LET event == Parse(line)
       IN IF event.timestamp >= startTime /\ event.timestamp < endTime
          THEN IF pattern # <<>> /\ ~RegexTest(pattern, event.message)
               THEN matching
               ELSE Append(matching, event)
          ELSE matching

\* faulty variant: a line that does not parse discards what was collected
ScanLine_ResetOnBad(matching, line, pattern, startTime, endTime) ==
  IF line.k = "blank" THEN matching
  ELSE IF ~Parses(line) THEN <<>>
  ELSE LET event == Parse(line)
       IN IF event.timestamp >= startTime /\ event.timestamp <= endTime
          THEN IF pattern # <<>> /\ ~RegexTest(pattern, event.message)
               THEN matching
               ELSE Append(matching, event)
          ELSE matching

\* the body of `for await (const line of rl)` for one line
ScanLine(matching, line, pattern, startTime, endTime) ==
  IF line.k = "blank" THEN matching
  ELSE IF ~Parses(line) THEN matching
  ELSE LET event == Parse(line)
       IN IF event.timestamp >= startTime /\ event.timestamp <= endTime
          THEN IF pattern # <<>> /\ ~RegexTest(pattern, event.message)
               THEN matching
               ELSE Append(matching, event)
          ELSE matching

RECURSIVE ScanLines(_, _, _, _, _)
ScanLines(matching, lines, pattern, startTime, endTime) ==
  IF lines = <<>> THEN matching
  ELSE ScanLines(ScanLine(matching, Head(lines), pattern, startTime, endTime),
                 Tail(lines), pattern, startTime, endTime)

RECURSIVE InsertSorted_BeforeEqual(_, _)
\* faulty variant: e goes before the elements that compare equal
InsertSorted_BeforeEqual(sorted, e) ==
  IF sorted = <<>> THEN <<e>>
  ELSE IF Head(sorted).timestamp - e.timestamp >= 0
       THEN <<e>> \o sorted
       ELSE <<Head(sorted)>> \o InsertSorted_BeforeEqual(Tail(sorted), e)

RECURSIVE InsertSorted(_, _)
\* e goes after every element that does not compare greater
InsertSorted(sorted, e) ==
  IF sorted = <<>> THEN <<e>>
  ELSE IF Head(sorted).timestamp - e.timestamp > 0
       THEN <<e>> \o sorted
       ELSE <<Head(sorted)>> \o InsertSorted(Tail(sorted), e)

RECURSIVE SortByTimestamp(_)
\* allEvents.sort((a, b) => a.timestamp - b.timestamp), a stable sort
SortByTimestamp(events) ==
  IF events = <<>> THEN <<>>
  ELSE InsertSorted(SortByTimestamp(SubSeq(events, 1, Len(events) - 1)),
                    events[Len(events)])

\* res.json(allEvents)
SearchSuccess(matching) ==
  [NoResp EXCEPT !.code = 200, !.events = SortByTimestamp(matching)]

\* ---------------------------------------------------------------- Pruner

\* faulty variant: the cutoff is one day later
CutoffDate_DayLater(now) == ((now \div DayMs) - MAX_CACHE_AGE_DAYS + 1) * DayMs

\* cutoffDate: setUTCDate(getUTCDate() - MAX_CACHE_AGE_DAYS), setUTCHours(0,0,0,0)
CutoffDate(now) == ((now \div DayMs) - MAX_CACHE_AGE_DAYS) * DayMs

\* ---- file names, as the characters the Pruner reads from a directory

DigitChars == <<"0", "1", "2", "3", "4", "5", "6", "7", "8", "9">>

RECURSIVE Pad(_, _)
\* the last `width` decimal digits of n, with leading zeros
Pad(n, width) ==
  IF width = 0 THEN <<>>
  ELSE Pad(n \div 10, width - 1) \o <<DigitChars[(n % 10) + 1]>>

\* the calendar date of the day with the given number (day 0 is 1970-01-01)
CivilFromDays(day) ==
  LET z == day + 719468
      era == z \div 146097
      doe == z - era * 146097
      yoe == (doe - doe \div 1460 + doe \div 36524 - doe \div 146096) \div 365
      doy == doe - (365 * yoe + yoe \div 4 - yoe \div 100)
      mp == (5 * doy + 2) \div 153
      m == IF mp < 10 THEN mp + 3 ELSE mp - 9
  IN [year |-> yoe + era * 400 + (IF m <= 2 THEN 1 ELSE 0),
      month |-> m,
      day |-> doy - (153 * mp + 2) \div 5 + 1]

\* the number of the day of a calendar date
DaysFromCivil(year, month, day) ==
  LET y == IF month <= 2 THEN year - 1 ELSE year
      era == y \div 400
      yoe == y - era * 400
      doy == (153 * (IF month > 2 THEN month - 3 ELSE month + 9) + 2) \div 5 + day - 1
      doe == yoe * 365 + yoe \div 4 - yoe \div 100 + doy
  IN era * 146097 + doe - 719468

\* date.toISOString().split('T')[0] as text: YYYY-MM-DD
IsoDate(day) ==
  LET c == CivilFromDays(day)
  IN Pad(c.year, 4) \o <<"-">> \o Pad(c.month, 2) \o <<"-">> \o Pad(c.day, 2)

DotLog == <<".", "l", "o", "g">>

\* `${dateString}.log`, the name of a canonical file
ShardName(day) == IsoDate(day) \o DotLog

\* `${finalPath}.tmp`, the name of a temporary file
TempName(day) == ShardName(day) \o <<".", "t", "m", "p">>

EndsWith(s, suffix) ==
  /\ Len(suffix) <= Len(s)
  /\ SubSeq(s, Len(s) - Len(suffix) + 1, Len(s)) = suffix

\* path.basename(logFile, '.log')
Basename(logFile, ext) ==
  IF EndsWith(logFile, ext)
  THEN SubSeq(logFile, 1, Len(logFile) - Len(ext))
  ELSE logFile

RECURSIVE Split(_, _)
\* s.split(sep) for a separator of one character
Split(s, sep) ==
  IF \A i \in DOMAIN s: s[i] # sep THEN <<s>>
  ELSE LET i == CHOOSE k \in DOMAIN s:
                  s[k] = sep /\ \A j \in 1..(k - 1): s[j] # sep
       IN <<SubSeq(s, 1, i - 1)>> \o Split(SubSeq(s, i + 1, Len(s)), sep)

NaN == [ok |-> FALSE, n |-> 0]

Num(n) == [ok |-> TRUE, n |-> n]

RECURSIVE DecimalValue(_)
DecimalValue(text) ==
  IF text = <<>> THEN 0
  ELSE 10 * DecimalValue(SubSeq(text, 1, Len(text) - 1))
       + ((CHOOSE d \in DOMAIN DigitChars: DigitChars[d] = text[Len(text)]) - 1)

\* Number(text) for a text of decimal digits (the empty text is 0) and for a
\* text with a character that no numeric literal has (NaN)
ToNumber(text) ==
  IF \A i \in DOMAIN text: \E d \in DOMAIN DigitChars: DigitChars[d] = text[i]
  THEN Num(DecimalValue(text))
  ELSE NaN

\* Date.UTC(year, monthIndex, day): the time value, or NaN when an argument
\* is NaN; a month or day out of range rolls over, a year 0..99 is 1900 + year
DateUTC(year, monthIndex, day) ==
  IF ~year.ok \/ ~monthIndex.ok \/ ~day.ok THEN NaN
  ELSE LET y == IF year.n <= 99 THEN 1900 + year.n ELSE year.n
       IN Num((DaysFromCivil(y + (monthIndex.n \div 12), (monthIndex.n % 12) + 1, 1)
                 + (day.n - 1)) * DayMs)

\* const [year, month, day] = fileDateStr.split('-').map(Number);
\* new Date(Date.UTC(year, month - 1, day)) of a file name
FileDateOf(logFile) ==
  LET parts == Split(Basename(logFile, DotLog), "-")
      at(i) == IF i <= Len(parts) THEN ToNumber(parts[i]) ELSE NaN
      month == at(2)
  IN DateUTC(at(1), IF month.ok THEN Num(month.n - 1) ELSE NaN, at(3))

\* fileDate < cutoffDate: false when fileDate is an invalid date
OlderThanCutoff(logFile, now) ==
  FileDateOf(logFile).ok /\ FileDateOf(logFile).n < CutoffDate(now)

\* the time value pruneCache reads from the name of a canonical file
FileDate(p) == FileDateOf(ShardName(p[2])).n

\* a stray entry: directly below CACHE_DIR (not a directory), or a file of
\* the group directory dir
Stray(atRoot, dir, name) == [atRoot |-> atRoot, dir |-> dir, name |-> name]

\* faulty variant: an absent CACHE_DIR is created
pruneCache_MakeRoot(w, now) ==
  LET w0 == [w EXCEPT !.root = TRUE]
      keptFiles == {x \in DOMAIN w0.files : ~OlderThanCutoff(ShardName(x[2]), now)}
      keptTmps == {x \in DOMAIN w0.tmps : ~OlderThanCutoff(TempName(x[2]), now)}
      keptStrays == {e \in w0.strays :
                       e.atRoot \/ e.dir \notin w0.dirs \/ ~OlderThanCutoff(e.name, now)}
  IN [w0 EXCEPT
        !.files = [p \in keptFiles |-> w0.files[p]],
        !.tmps = [p \in keptTmps |-> w0.tmps[p]],
        !.strays = keptStrays,
        !.prunedCount = Cardinality(DOMAIN w0.files \ keptFiles)
                          + Cardinality(DOMAIN w0.tmps \ keptTmps)
                          + Cardinality(w0.strays \ keptStrays)]

\* pruneCache: nothing when CACHE_DIR is absent; otherwise, in every entry of
\* CACHE_DIR that is a directory, unlink every file with fileDate < cutoffDate
\* and count it
pruneCache(w, now) ==
  IF ~w.root THEN [w EXCEPT !.prunedCount = 0]
  ELSE LET keptFiles == {x \in DOMAIN w.files : ~OlderThanCutoff(ShardName(x[2]), now)}
           keptTmps == {x \in DOMAIN w.tmps : ~OlderThanCutoff(TempName(x[2]), now)}
           keptStrays == {e \in w.strays :
                            e.atRoot \/ e.dir \notin w.dirs \/ ~OlderThanCutoff(e.name, now)}
       IN [w EXCEPT
             !.files = [p \in keptFiles |-> w.files[p]],
             !.tmps = [p \in keptTmps |-> w.tmps[p]],
             !.strays = keptStrays,
             !.prunedCount = Cardinality(DOMAIN w.files \ keptFiles)
                               + Cardinality(DOMAIN w.tmps \ keptTmps)
                               + Cardinality(w.strays \ keptStrays)]

\* ---------------------------------------------------------------- actions

Commit(w) ==
  /\ files' = w.files
  /\ tmps' = w.tmps
  /\ dirs' = w.dirs
  /\ root' = w.root
  /\ strays' = w.strays
  /\ prunedCount' = w.prunedCount

\* what a publish does to the open read stream of another request
Observe(x, w) ==
  IF x.pc = "scan" /\ x.rd.open /\ x.rd.linked
  THEN LET p == x.required[x.fi]
       IN IF p \in w.replaced
          THEN [x EXCEPT !.rd.linked = FALSE, !.rd.news = @ \cup {w.files[p]}]
          ELSE IF p \in w.truncated
          THEN [x EXCEPT !.rd.buf = <<>>, !.rd.news = @ \cup {w.files[p]}]
          ELSE x
  ELSE x

\* index.js up to `await import(...)`: pruneCache()
Boot ==
  /\ phase = "boot"
  /\ phase' = "starting"
  /\ \E now \in BootTimes:
       /\ now >= clock
       /\ clock' = now
       /\ Commit(pruneCache(World, now))
  /\ UNCHANGED <<req, remoteVer, tz>>

\* index.js after the import: server.start(); the locals of pruneCache are
\* gone
Start ==
  /\ phase = "starting"
  /\ phase' = "serving"
  /\ prunedCount' = 0
  /\ UNCHANGED <<files, tmps, dirs, req, clock, remoteVer, tz, root, strays>>

\* the remote's data changes
RemoteChange ==
  /\ remoteVer = 1
  /\ remoteVer' = 2
  /\ UNCHANGED <<files, tmps, dirs, req, phase, clock, tz, root, strays, prunedCount>>

\* faulty variant: the time bounds are not looked at
Invalid_GroupsOnly(groups, startTime, endTime) == groups = <<>>

\* !logGroupNames || !Array.isArray(logGroupNames) || logGroupNames.length === 0,
\* !startTime || !endTime
Invalid(groups, startTime, endTime) ==
  groups = <<>> \/ startTime = 0 \/ endTime = 0

\* res.status(400).send(...)
BadRequest == [NoResp EXCEPT !.code = 400]

\* the handler of a request with the given body, from its start up to its
\* first await
Arrive(r, body, prev) ==
  LET q == [Idle EXCEPT !.kind = body.kind, !.groups = body.logGroupNames,
                        !.startTime = body.startTime, !.endTime = body.endTime,
                        !.force = body.force, !.pattern = body.filterPattern,
                        !.prev = prev]
      out == IF Invalid(body.logGroupNames, body.startTime, body.endTime)
             THEN [w |-> World, q |-> [q EXCEPT !.pc = "done", !.resp = BadRequest]]
             ELSE IF body.kind = "download" THEN DownloadLoop(World, q)
             ELSE SearchLoop(World, q)
  IN /\ Commit(out.w)
     /\ req' = [req EXCEPT ![r] = out.q]

\* faulty variant: the server takes requests before pruneCache has run
Begin_AnyPhase(r) ==
  /\ req[r].pc \in {"idle", "done"}
  /\ \E body \in Bodies(r): Arrive(r, body, <<>>)
  /\ UNCHANGED <<phase, clock, remoteVer, tz>>

\* a request arrives: the handler runs up to its first await
Begin(r) ==
  /\ phase = "serving"
  /\ req[r].pc \in {"idle", "done"}
  /\ \E body \in Bodies(r): Arrive(r, body, <<>>)
  /\ UNCHANGED <<phase, clock, remoteVer, tz>>

\* the remote answers a FilterLogEvents call of the drain of r
FetchOk(r) ==
  /\ phase = "serving"
  /\ req[r].pc = "fetch"
  /\ LET q == req[r]
         logGroupName == CurGroup(q)
         date == CurDate(q)
         response == RemoteFetch(logGroupName, date, date + DayMs - 1, q.token, remoteVer)
         allEvents == Accumulate(q.acc, response)
         nextToken == NextTokenOf(response)
         q1 == [q EXCEPT !.acc = allEvents, !.token = nextToken,
                         !.sent = Append(@, q.token),
                         !.returned = Append(@, response.nextToken),
                         !.rx = Append(@, response.events),
                         !.rxVers = @ \cup {remoteVer}]
     IN IF nextToken # NoToken
        THEN /\ req' = [req EXCEPT ![r] = q1]
             /\ UNCHANGED <<files, tmps, dirs, root, strays, prunedCount>>
        ELSE LET w == PublishShard(World, logGroupName, date, allEvents)
                 dl == DownloadResult(w, logGroupName, date, allEvents)
             IN /\ Commit(w)
                /\ req' = [x \in Reqs |->
                            IF x = r THEN [q1 EXCEPT !.pc = "resume", !.dl = dl]
                            ELSE Observe(req[x], w)]
  /\ UNCHANGED <<phase, clock, remoteVer, tz>>

\* a FilterLogEvents call of the drain of r rejects: downloadAndCacheLogs
\* logs and rethrows
FetchFail(r) ==
  /\ phase = "serving"
  /\ req[r].pc = "fetch"
  /\ \E msg \in ErrMsgs:
       LET out == DrainThrows(World, req[r], msg)
       IN /\ Commit(out.w)
          /\ req' = [req EXCEPT ![r] = out.q]
  /\ UNCHANGED <<phase, clock, remoteVer, tz>>

\* the handler continues after the await of the download
Resume(r) ==
  /\ phase = "serving"
  /\ req[r].pc = "resume"
  /\ LET out == IF req[r].kind = "download"
                THEN DownloadResume(World, req[r])
                ELSE SearchResume(World, req[r])
     IN /\ Commit(out.w)
        /\ req' = [req EXCEPT ![r] = out.q]
  /\ UNCHANGED <<phase, clock, remoteVer, tz>>

\* faulty variant: a path that does not exist is created as an empty shard
ScanNext_Create(r) ==
  /\ phase = "serving"
  /\ req[r].pc = "scan"
  /\ ~req[r].rd.open
  /\ LET q == req[r]
     IN IF q.fi <= Len(q.required) /\ q.required[q.fi] \notin DOMAIN files
        THEN /\ files' = With(files, q.required[q.fi], <<>>)
             /\ req' = [req EXCEPT ![r] = [q EXCEPT !.fi = @ + 1]]
        ELSE /\ files' = files
             /\ req' = [req EXCEPT ![r] =
                  IF q.fi > Len(q.required)
                  THEN [q EXCEPT !.pc = "done", !.resp = SearchSuccess(q.matching)]
                  ELSE [q EXCEPT !.rd = [open |-> TRUE, linked |-> TRUE,
                                         buf |-> files[q.required[q.fi]],
                                         snap |-> files[q.required[q.fi]],
                                         got |-> <<>>, news |-> {}]]]
  /\ UNCHANGED <<tmps, dirs, phase, clock, remoteVer, tz, root, strays, prunedCount>>

\* searchLocalLogs at the head of its loop over the paths: the end of the
\* loop (sort and respond), a path that does not exist, or the open of a file
ScanNext(r) ==
  /\ phase = "serving"
  /\ req[r].pc = "scan"
  /\ ~req[r].rd.open
  /\ LET q == req[r]
     IN req' = [req EXCEPT ![r] =
          IF q.fi > Len(q.required)
          THEN [q EXCEPT !.pc = "done", !.resp = SearchSuccess(q.matching)]
          ELSE IF q.required[q.fi] \notin DOMAIN files
          THEN [q EXCEPT !.fi = @ + 1]
          ELSE [q EXCEPT !.rd = [open |-> TRUE, linked |-> TRUE,
                                 buf |-> files[q.required[q.fi]],
                                 snap |-> files[q.required[q.fi]],
                                 got |-> <<>>, news |-> {}]]]
  /\ UNCHANGED <<files, tmps, dirs, phase, clock, remoteVer, tz, root, strays, prunedCount>>

\* the read stream delivers the next chunk: some of the lines not yet read
ScanRead(r) ==
  /\ phase = "serving"
  /\ req[r].pc = "scan"
  /\ req[r].rd.open
  /\ req[r].rd.buf # <<>>
  /\ \E n \in 1..Len(req[r].rd.buf):
       LET q == req[r]
           lines == SubSeq(q.rd.buf, 1, n)
       IN req' = [req EXCEPT ![r] =
            [q EXCEPT !.matching = ScanLines(@, lines, q.pattern, q.startTime, q.endTime),
                      !.rd.buf = SubSeq(q.rd.buf, n + 1, Len(q.rd.buf)),
                      !.rd.got = @ \o lines]]
  /\ UNCHANGED <<files, tmps, dirs, phase, clock, remoteVer, tz, root, strays, prunedCount>>

\* the read stream reports the end of the file
ScanEof(r) ==
  /\ phase = "serving"
  /\ req[r].pc = "scan"
  /\ req[r].rd.open
  /\ req[r].rd.buf = <<>>
  /\ req' = [req EXCEPT ![r] = [@ EXCEPT !.rd = NoReader, !.fi = @ + 1]]
  /\ UNCHANGED <<files, tmps, dirs, phase, clock, remoteVer, tz, root, strays, prunedCount>>

\* the process dies between two steps; every request in flight is lost
Crash ==
  /\ phase = "serving"
  /\ phase' = "boot"
  /\ req' = [x \in Reqs |-> Idle]
  /\ UNCHANGED <<files, tmps, dirs, clock, remoteVer, tz, root, strays, prunedCount>>

\* the process dies inside fs.writeFileSync(tempPath, logData) or between it
\* and fs.renameSync: the temporary file holds some prefix of the data
CrashInPublish(r) ==
  /\ phase = "serving"
  /\ req[r].pc = "fetch"
  /\ LET q == req[r]
         logGroupName == CurGroup(q)
         date == CurDate(q)
         response == RemoteFetch(logGroupName, date, date + DayMs - 1, q.token, remoteVer)
         allEvents == Accumulate(q.acc, response)
     IN /\ NextTokenOf(response) = NoToken
        /\ Len(allEvents) > 0
        /\ \E n \in 0..Len(allEvents):
             Commit(WriteTemp(ensureLogGroupDir(World, logGroupName),
                              LogFilePath(logGroupName, date),
                              SubSeq(LogData(allEvents), 1, n)))
  /\ phase' = "boot"
  /\ req' = [x \in Reqs |-> Idle]
  /\ UNCHANGED <<clock, remoteVer, tz>>

Init ==
  /\ files = <<>>
  /\ tmps = <<>>
  /\ dirs = {}
  /\ req = [x \in Reqs |-> Idle]
  /\ phase = "boot"
  /\ clock = 0
  /\ remoteVer = 1
  /\ tz \in TimeZones
  /\ root = FALSE
  /\ strays = {}
  /\ prunedCount = 0

Next ==
  \/ Boot
  \/ Start
  \/ RemoteChange
  \/ Crash
  \/ \E r \in Reqs: Begin(r)
  \/ \E r \in Reqs: FetchOk(r)
  \/ \E r \in Reqs: FetchFail(r)
  \/ \E r \in Reqs: Resume(r)
  \/ \E r \in Reqs: ScanNext(r)
  \/ \E r \in Reqs: ScanRead(r)
  \/ \E r \in Reqs: ScanEof(r)
  \/ \E r \in Reqs: CrashInPublish(r)

Spec == Init /\ [][Next]_vars

\* ---------------------------------------------------------------- searchLocalLogs alone

\* a line that JSON.parse rejects
BadLine == [k |-> "bad", ts |-> 0, msg |-> <<"{">>]

P1 == LogFilePath(GA, D1)
P2 == LogFilePath(GA, D2)
P3 == LogFilePath(GC, D1)

\* what a shard file may hold when searchLocalLogs is called: the output of
\* a download, or a file that something else has written to
ShardContents ==
  { << Stringify(Ev(D1 + 7, <<"E", "x">>)), BadLine,
       Stringify(Ev(D1 + 5, <<"o", "k">>)), BlankLine,
       Stringify(Ev(D1 + 7, <<"E", "y">>)) >>,
    << Stringify(Ev(D1 + 5, <<"x", "E">>)), Stringify(Ev(D2 + 1, <<"o", "k">>)) >>,
    << BlankLine, BadLine >>,
    << >> }

\* the caches searchLocalLogs is called on: P3 never exists
SearchCaches ==
  UNION { [S -> ShardContents] : S \in SUBSET {P1, P2} }

\* the path lists (logFilePaths) of a call: no path twice
SearchPathLists ==
  { <<>>, <<P1>>, <<P2>>, <<P3>>, <<P1, P2>>, <<P2, P1>>, <<P3, P1>>, <<P2, P3>>,
    <<P1, P3, P2>>, <<P2, P1, P3>> }

\* (startTime, endTime) of a call
SearchWindows == { <<D1, D3 - 1>>, <<D1 + 5, D1 + 7>>, <<D1 + 6, D2 + 1>> }

\* filterPattern of a call; the empty pattern is falsy: no filter
SearchPatterns == { <<>>, <<"E">>, <<"k">> }

\* a call of searchLocalLogs(logFilePaths, filterPattern, startTime, endTime)
InitSearch ==
  /\ files \in SearchCaches
  /\ tmps = <<>>
  /\ dirs = {p[1] : p \in DOMAIN files}
  /\ root = TRUE
  /\ strays = {}
  /\ prunedCount = 0
  /\ phase = "serving"
  /\ clock = D3
  /\ remoteVer = 1
  /\ tz \in TimeZones
  /\ \E paths \in SearchPathLists, win \in SearchWindows, pattern \in SearchPatterns:
       req = [x \in Reqs |->
                IF x = "r1"
                THEN [Idle EXCEPT !.pc = "scan", !.kind = "search",
                                  !.startTime = win[1], !.endTime = win[2],
                                  !.pattern = pattern, !.required = paths]
                ELSE Idle]

NextSearch ==
  \/ \E r \in Reqs: ScanNext(r)
  \/ \E r \in Reqs: ScanRead(r)
  \/ \E r \in Reqs: ScanEof(r)

SpecSearch == InitSearch /\ [][NextSearch]_vars

\* ---------------------------------------------------------------- pruneCache alone

\* the directory of the group GA
DirA == sanitizeLogGroupName(GA)

\* the shards a cache may hold when the process starts
PruneShards == {<<DirA, 1>>, <<DirA, 2>>, <<DirA, 3>>, <<sanitizeLogGroupName(GC), 1>>}

PruneContents == { <<>>, <<Stringify(Ev(D1 + 5, <<"o", "k">>))>> }

\* entries the program did not write: a file directly below CACHE_DIR with
\* the name of a shard, and files of a group directory whose names are not
\* <YYYY-MM-DD>.log
StrayEntries ==
  { Stray(TRUE, <<>>, ShardName(1)),
    Stray(FALSE, DirA, IsoDate(1)),
    Stray(FALSE, DirA, IsoDate(1) \o <<"-", "o", "l", "d">> \o DotLog),
    Stray(FALSE, DirA, <<"n", "o", "t", "e", "s", ".", "t", "x", "t">>),
    Stray(FALSE, DirA, <<"1", "9", "7", "0", "-", "1", "-", "2">> \o DotLog) }

\* the process starts on a cache directory left by earlier runs, or on none
InitPrune ==
  /\ root \in BOOLEAN
  /\ files \in UNION { [S -> PruneContents] : S \in SUBSET PruneShards }
  /\ tmps \in { <<>>, [p \in {<<DirA, 1>>} |-> <<>>] }
  /\ strays \in SUBSET StrayEntries
  /\ root = FALSE => (files = <<>> /\ tmps = <<>> /\ strays = {})
  /\ dirs = IF root THEN {DirA, sanitizeLogGroupName(GC)} ELSE {}
  /\ prunedCount = 0
  /\ req = [x \in Reqs |-> Idle]
  /\ phase = "boot"
  /\ clock = 0
  /\ remoteVer = 1
  /\ tz \in TimeZones

NextPrune ==
  \/ Boot
  \/ Start
  \/ Crash

SpecPrune == InitPrune /\ [][NextPrune]_vars

\* ---------------------------------------------------------------- pruneCache with an error

\* the names fs.readdirSync(dirPath) returns for a group directory
EntryNames(w, dir) ==
  {ShardName(p[2]) : p \in {x \in DOMAIN w.files : x[1] = dir}}
    \cup {TempName(p[2]) : p \in {x \in DOMAIN w.tmps : x[1] = dir}}
    \cup {e.name : e \in {x \in w.strays : ~x.atRoot /\ x.dir = dir}}

\* no call of the run throws
NoFault == [kind |-> "none", dir |-> <<>>, name |-> <<>>, before |-> {}]

\* the files of a group directory with fileDate < cutoffDate
OldNames(w, now, dir) == {n \in EntryNames(w, dir) : OlderThanCutoff(n, now)}

\* The one call of a run that throws: fs.statSync or fs.readdirSync of a
\* group directory, or fs.unlinkSync of one of its files older than the
\* cutoff; `before` are the files older than the cutoff that
\* fs.readdirSync returned ahead of that file (its order is the file
\* system's).
PruneFaults(w, now) ==
  {NoFault}
    \cup {[kind |-> k, dir |-> d, name |-> <<>>, before |-> {}] :
            k \in {"statSync", "readdirSync"}, d \in w.dirs}
    \cup UNION {UNION {{[kind |-> "unlinkSync", dir |-> d, name |-> n, before |-> B] :
                         B \in SUBSET (OldNames(w, now, d) \ {n})} :
                       n \in OldNames(w, now, d)} :
                d \in w.dirs}

\* faulty variant: the error ends the run, no other directory is visited
Unlinked_Abort(w, now, fault, dir) ==
  LET old == OldNames(w, now, dir)
  IN IF fault.kind = "none" THEN old
     ELSE IF fault.dir # dir THEN {}
     ELSE IF fault.kind = "unlinkSync" THEN old \cap fault.before
     ELSE {}

\* the names the inner loop unlinks in a group directory: every file with
\* fileDate < cutoffDate, up to the call that throws, which takes the run
\* to the catch block and to the next directory
Unlinked(w, now, fault, dir) ==
  LET old == OldNames(w, now, dir)
  IN IF fault.kind = "none" \/ fault.dir # dir THEN old
     ELSE IF fault.kind = "unlinkSync" THEN old \cap fault.before
     ELSE {}

\* pruneCache when a call inside the try block throws
pruneCacheWithError(w, now, fault) ==
  IF ~w.root THEN [w EXCEPT !.prunedCount = 0]
  ELSE LET keptFiles == {x \in DOMAIN w.files :
                           ShardName(x[2]) \notin Unlinked(w, now, fault, x[1])}
           keptTmps == {x \in DOMAIN w.tmps :
                          TempName(x[2]) \notin Unlinked(w, now, fault, x[1])}
           keptStrays == {e \in w.strays :
                            e.atRoot \/ e.dir \notin w.dirs
                              \/ e.name \notin Unlinked(w, now, fault, e.dir)}
       IN [w EXCEPT
             !.files = [p \in keptFiles |-> w.files[p]],
             !.tmps = [p \in keptTmps |-> w.tmps[p]],
             !.strays = keptStrays,
             !.prunedCount = Cardinality(DOMAIN w.files \ keptFiles)
                               + Cardinality(DOMAIN w.tmps \ keptTmps)
                               + Cardinality(w.strays \ keptStrays)]

\* index.js up to `await import(...)`: pruneCache(), with at most one call
\* that throws
BootWithError ==
  /\ phase = "boot"
  /\ phase' = "starting"
  /\ \E now \in BootTimes:
       /\ now >= clock
       /\ clock' = now
       /\ \E fault \in PruneFaults(World, now):
            Commit(pruneCacheWithError(World, now, fault))
  /\ UNCHANGED <<req, remoteVer, tz>>

NextPruneError ==
  \/ BootWithError
  \/ Start
  \/ Crash

\* the process starts on a cache directory left by earlier runs, each
\* shard of which holds an event, or on none
InitPruneError ==
  /\ InitPrune
  /\ \A p \in DOMAIN files: files[p] # <<>>

SpecPruneError == InitPruneError /\ [][NextPruneError]_vars

\* ---------------------------------------------------------------- a /download repeated

\* the bodies of the /download calls a client sends twice, without force
RepeatBodies ==
  { Body("download", <<GA>>, D1, D3 - 1, FALSE, <<>>),
    Body("download", <<GA, GB>>, D1, D2 - 1, FALSE, <<>>),
    Body("download", <<GC, GB>>, D1, D2 - 1, FALSE, <<>>) }

\* the body of the request in a slot
BodyOf(q) == Body(q.kind, q.groups, q.startTime, q.endTime, q.force, q.pattern)

\* the client sends a /download
First(r) ==
  /\ phase = "serving"
  /\ req[r].pc = "idle"
  /\ \E body \in RepeatBodies: Arrive(r, body, <<>>)
  /\ UNCHANGED <<phase, clock, remoteVer, tz>>

\* the client has the report and sends the same /download again
Again(r) ==
  /\ phase = "serving"
  /\ req[r].pc = "done"
  /\ req[r].prev = <<>>
  /\ Arrive(r, BodyOf(req[r]), req[r].results)
  /\ UNCHANGED <<phase, clock, remoteVer, tz>>

\* one client, one request at a time, no restart of the process
NextRepeat ==
  \/ Boot
  \/ Start
  \/ RemoteChange
  \/ First("r1")
  \/ Again("r1")
  \/ FetchOk("r1")
  \/ FetchFail("r1")
  \/ Resume("r1")

SpecRepeat == Init /\ [][NextRepeat]_vars

\* ---------------------------------------------------------------- one client, one call after the other

D4 == 4 * DayMs

\* The groups and the time bounds of the calls the client sends: three whole
\* days of one group; two groups from inside a day to the first instant of
\* the next; an end before the start, on the same day and a day earlier; an
\* empty group list, a missing start and a missing end.
SessionWindows ==
  { [groups |-> <<GC>>, startTime |-> D1, endTime |-> D4 - 1],
    [groups |-> <<GA, GC>>, startTime |-> D1 + 6, endTime |-> D2],
    [groups |-> <<GC>>, startTime |-> D2 + 3, endTime |-> D2 + 1],
    [groups |-> <<GC>>, startTime |-> D3, endTime |-> D2 - 1],
    [groups |-> <<GD>>, startTime |-> D2, endTime |-> D4 - 1],
    [groups |-> <<NoName, Dot, DotDot>>, startTime |-> D1, endTime |-> D2 - 1],
    [groups |-> <<>>, startTime |-> D1, endTime |-> D2 - 1],
    [groups |-> <<GC>>, startTime |-> 0, endTime |-> D2 - 1],
    [groups |-> <<GC>>, startTime |-> D1, endTime |-> 0] }

\* The calls that name a group more than once: the same name three times
\* over, two names with the same directory, and a group of two days whose
\* first day holds the same event twice.
RepeatedGroupWindows ==
  { [groups |-> <<GA, GB, GA>>, startTime |-> D1, endTime |-> D2 - 1],
    [groups |-> <<GC, GC>>, startTime |-> D1, endTime |-> D3 - 1] }

\* UTC, UTC+2 and UTC-5 with no change of the clocks, and the two zones
\* that change them
SessionTimeZones == {0, 7200000, -18000000, SummerZone, WinterZone}

\* what the client keeps of a call that was answered
Past(q) ==
  [kind |-> q.kind, code |-> q.resp.code, status |-> q.resp.status,
   results |-> q.results, events |-> q.resp.events]

\* the client sends a /download, without force
Download(r) ==
  /\ phase = "serving"
  /\ req[r].pc = "idle"
  /\ \E win \in SessionWindows:
       Arrive(r, Body("download", win.groups, win.startTime, win.endTime, FALSE, <<>>),
              <<>>)
  /\ UNCHANGED <<phase, clock, remoteVer, tz>>

\* the client sends a /search without pattern: as its first call, or for the
\* window of the /download it has the report of
Search(r) ==
  /\ phase = "serving"
  /\ \/ /\ req[r].pc = "idle"
        /\ \E win \in SessionWindows \cup RepeatedGroupWindows:
             Arrive(r, Body("search", win.groups, win.startTime, win.endTime, FALSE, <<>>),
                    <<>>)
     \/ /\ req[r].pc = "done"
        /\ req[r].kind = "download"
        /\ Arrive(r, [BodyOf(req[r]) EXCEPT !.kind = "search"], <<Past(req[r])>>)
  /\ UNCHANGED <<phase, clock, remoteVer, tz>>

\* the client has the answer of a /search and sends the same /search again
SearchAgain(r) ==
  /\ phase = "serving"
  /\ req[r].pc = "done"
  /\ req[r].kind = "search"
  /\ \A i \in DOMAIN req[r].prev: req[r].prev[i].kind = "download"
  /\ Arrive(r, BodyOf(req[r]), Append(req[r].prev, Past(req[r])))
  /\ UNCHANGED <<phase, clock, remoteVer, tz>>

InitSession ==
  /\ files = <<>>
  /\ tmps = <<>>
  /\ dirs = {}
  /\ req = [x \in Reqs |-> Idle]
  /\ phase = "boot"
  /\ clock = 0
  /\ remoteVer = 1
  /\ tz \in SessionTimeZones
  /\ root = FALSE
  /\ strays = {}
  /\ prunedCount = 0

NextSession ==
  \/ Boot
  \/ Start
  \/ RemoteChange
  \/ Download("r1")
  \/ Search("r1")
  \/ SearchAgain("r1")
  \/ FetchOk("r1")
  \/ FetchFail("r1")
  \/ Resume("r1")
  \/ ScanNext("r1")
  \/ ScanRead("r1")
  \/ ScanEof("r1")

SpecSession == InitSession /\ [][NextSession]_vars

\* ---------------------------------------------------------------- getLogFilePath alone

\* '/aws/ecs/my-app'
AwsEcsMyApp ==
  <<"/", "a", "w", "s", "/", "e", "c", "s", "/", "m", "y", "-", "a", "p", "p">>

\* 'log.group-name/123'
LogGroupName123 ==
  <<"l", "o", "g", ".", "g", "r", "o", "u", "p", "-", "n", "a", "m", "e",
    "/", "1", "2", "3">>

\* 'simple_name'
SimpleName == <<"s", "i", "m", "p", "l", "e", "_", "n", "a", "m", "e">>

\* '/test/log/group'
TestLogGroup ==
  <<"/", "t", "e", "s", "t", "/", "l", "o", "g", "/", "g", "r", "o", "u", "p">>

\* the log group names the function is called with; the last is ''
AddressGroups ==
  {AwsEcsMyApp, LogGroupName123, SimpleName, TestLogGroup, GA, GB, <<>>}

\* 10:00:00 UTC as milliseconds of the day
TenOClock == 10 * 3600000

\* the instants the function is called with: 10:00 UTC of a day, the last
\* millisecond of a day, the first of another
AddressDates == {D1 + TenOClock, D2 - 1, 20 * DayMs}

\* the shard a cache may hold before the calls
OldShard == LogFilePath(GA, D1)

\* a caller evaluates getLogFilePath(logGroupName, date); the slot keeps the
\* arguments and the path returned
GetLogFilePath(r) ==
  /\ \E logGroupName \in AddressGroups, date \in AddressDates:
       /\ Commit(ensureLogGroupDir(World, logGroupName))
       /\ req' = [req EXCEPT ![r] =
                    [Idle EXCEPT !.pc = "path", !.kind = "getLogFilePath",
                                 !.groups = <<logGroupName>>, !.startTime = date,
                                 !.required = <<LogFilePath(logGroupName, date)>>]]
  /\ UNCHANGED <<phase, clock, remoteVer, tz>>

\* a process with no cache directory, or with one shard in one directory
InitAddress ==
  /\ files \in {<<>>, With(<<>>, OldShard, LogData(<<Ev(D1 + 5, <<"o", "k">>)>>))}
  /\ tmps = <<>>
  /\ dirs = {p[1] : p \in DOMAIN files}
  /\ req = [x \in Reqs |-> Idle]
  /\ phase = "serving"
  /\ clock = 3 * DayMs + 5
  /\ remoteVer = 1
  /\ tz \in TimeZones
  /\ root = (files # <<>>)
  /\ strays = {}
  /\ prunedCount = 0

NextAddress == \E r \in Reqs: GetLogFilePath(r)

SpecAddress == InitAddress /\ [][NextAddress]_vars

\* ================================================================ properties

\* the versions of its data the remote can hold
RemoteVersions == {1, 2}

RECURSIVE DrainsFrom(_, _, _, _)
\* every event list a drain of one shard can end with, whatever the remote
\* holds at each of its calls
DrainsFrom(g, date, token, sofar) ==
  UNION { LET response == RemoteFetch(g, date, date + DayMs - 1, token, v)
          IN IF response.nextToken = NoToken
             THEN {sofar \o response.events}
             ELSE DrainsFrom(g, date, response.nextToken, sofar \o response.events)
          : v \in RemoteVersions }

PossibleDrains(g, date) == DrainsFrom(g, date, NoToken, <<>>)

\* the local midnight whose UTC day is `day`
ShardDate(day) ==
  MidnightOfDay(CHOOSE d \in {day - 1, day, day + 1}:
                  MidnightOfDay(d) \div DayMs = day)

IsPrefix(s, t) == Len(s) <= Len(t) /\ SubSeq(t, 1, Len(s)) = s

\* the complete serialised outputs a shard path can hold
CompleteShards(p) ==
  { LogData(o) : o \in UNION { PossibleDrains(g, ShardDate(p[2])) :
                               g \in {x \in AllGroups : sanitizeLogGroupName(x) = p[1]} } }

\* C1: in every reachable state a canonical shard file, if it exists, holds
\* the complete serialised event list of one full drain (possibly no event);
\* data of an unfinished publish is found under the temporary name only.
C1_NoPartialShard ==
  /\ \A p \in DOMAIN files: files[p] \in CompleteShards(p)
  /\ \A p \in DOMAIN tmps: \E c \in CompleteShards(p): IsPrefix(tmps[p], c)

\* a crash left a strict prefix of a shard under the temporary name while
\* the canonical name is absent, and another shard is published
C1_Witness ==
  \E p \in DOMAIN tmps:
    /\ p \notin DOMAIN files
    /\ tmps[p] \notin CompleteShards(p)
    /\ \E p2 \in DOMAIN files: files[p2] # <<>>

\* ---------------------------------------------------------------- steps

\* r took the step (a crash resets every slot and is no step of a request)
StepOf(r) == req'[r] # req[r] /\ phase' = "serving" /\ phase = "serving"

\* the drain of r ended with a rejected remote call
FailedStep(r) ==
  StepOf(r) /\ req[r].pc = "fetch" /\ req'[r].pc = "resume" /\ ~req'[r].dl.ok

\* the drain of r received a page and asked for the next
PageStep(r) == StepOf(r) /\ req[r].pc = "fetch" /\ req'[r].pc = "fetch"

\* the drain of r received its last page and published the shard
PublishStep(r) ==
  StepOf(r) /\ req[r].pc = "fetch" /\ req'[r].pc = "resume" /\ req'[r].dl.ok

\* the handler of r went on after a download that failed
FailedResumeStep(r) == StepOf(r) /\ req[r].pc = "resume" /\ ~req[r].dl.ok

\* the handler of r ran from the arrival of the request or from the return
\* of a download
HandlerStep(r) == StepOf(r) /\ req[r].pc \in {"idle", "done", "resume"}

EntryPath(e) == <<sanitizeLogGroupName(e.logGroupName), e.date>>

\* the number of events a shard file holds
NumEvents(content) == Cardinality({i \in DOMAIN content : Parses(content[i])})

\* the paths of the (group, day) pairs of a request, group-major
RECURSIVE PathsOf(_, _)
PathsOf(groups, dates) ==
  IF groups = <<>> THEN <<>>
  ELSE [i \in 1..Len(dates) |-> LogFilePath(Head(groups), dates[i])]
       \o PathsOf(Tail(groups), dates)

ShardPaths(q) == PathsOf(q.groups, getDateRange(q.startTime, q.endTime))

Range(s) == {s[i] : i \in DOMAIN s}

\* C2: when a remote call of a drain fails, on the first page or a later
\* one, nothing is published and no temporary file of the shard exists, the
\* drain changed no file, the failure carries the message of the remote
\* error, and the message is what the caller reports (the `error` entry of
\* /download, the failure of /search).
C2_FailedDrainLeavesNoTrace ==
  [][\A r \in Reqs:
       /\ (FailedStep(r) \/ PageStep(r)) =>
            /\ files' = files
            /\ tmps' = tmps
       /\ FailedStep(r) =>
            /\ CurPath(req[r]) \notin DOMAIN tmps'
            /\ req'[r].dl.error \in ErrMsgs
       /\ FailedResumeStep(r) =>
            /\ files' = files
            /\ CurPath(req[r]) \notin DOMAIN tmps'
            /\ req[r].kind = "download" =>
                 LET e == req'[r].results[Len(req[r].results) + 1]
                 IN /\ e.status = "error"
                    /\ e.error = req[r].dl.error
                    /\ EntryPath(e) = CurPath(req[r])
            /\ req[r].kind = "search" =>
                 /\ req'[r].pc = "done"
                 /\ req'[r].resp.code = 500
                 /\ req'[r].resp.events = <<>>
    ]_vars

\* a forced download failed on its second page while the shard exists
C2_Witness ==
  \E r \in Reqs:
    /\ req[r].pc = "resume"
    /\ ~req[r].dl.ok
    /\ req[r].acc # <<>>
    /\ req[r].force
    /\ CurPath(req[r]) \in DOMAIN files
    /\ files[CurPath(req[r])] # <<>>

\* C3: in /download without force, a shard that exists under its canonical
\* name (marker or not) is reported `skipped` with the event count and the
\* size of the file as it is, no remote call is made for it, and the file
\* stays as it is.
C3_SkipsCachedShard ==
  /\ [](\A r \in Reqs:
          (req[r].kind = "download" /\ ~req[r].force /\ req[r].pc \in {"fetch", "resume"})
            => req[r].seen = "absent")
  /\ [][\A r \in Reqs:
          (HandlerStep(r) /\ req'[r].kind = "download") =>
            /\ files' = files
            /\ \A i \in (Len(req[r].results) + 1)..Len(req'[r].results):
                 LET e == req'[r].results[i]
                 IN e.status = "skipped" =>
                      /\ ~req'[r].force
                      /\ EntryPath(e) \in DOMAIN files
                      /\ e.eventsCount = NumEvents(files[EntryPath(e)])
                      /\ e.fileSizeBytes = FileSize(files[EntryPath(e)])
            /\ (req'[r].pc = "fetch" /\ ~req'[r].force) =>
                 CurPath(req'[r]) \notin DOMAIN files
     ]_vars

\* a report without force that skipped a shard with events and an empty one
C3_Witness ==
  \E r \in Reqs:
    /\ req[r].pc = "done"
    /\ ~req[r].force
    /\ \E i, j \in DOMAIN req[r].results:
         /\ req[r].results[i].status = "skipped"
         /\ req[r].results[i].eventsCount > 1
         /\ req[r].results[j].status = "skipped"
         /\ req[r].results[j].eventsCount = 0

\* C4: a drain sends its first call without a token and every further call
\* with the token the previous response carried, ends with the first
\* response that carries none, and then publishes the events of all pages in
\* the order received: all the events the remote holds for the window when
\* its data did not change meanwhile.
C4_FullDrainInOrder ==
  /\ [](\A r \in Reqs:
          LET q == req[r]
          IN (q.pc \in {"fetch", "resume"}) =>
               /\ Len(q.returned) = Len(q.sent)
               /\ \A i \in DOMAIN q.sent:
                    q.sent[i] = IF i = 1 THEN NoToken ELSE q.returned[i - 1]
               /\ \A i \in 1..(Len(q.returned) - 1): q.returned[i] # NoToken
               /\ (q.pc = "fetch" /\ q.sent # <<>>) =>
                    /\ q.returned[Len(q.returned)] # NoToken
                    /\ q.token = q.returned[Len(q.returned)]
               /\ (q.pc = "fetch" /\ q.sent = <<>>) => q.token = NoToken
               /\ (q.pc = "resume" /\ q.dl.ok) =>
                    /\ q.returned[Len(q.returned)] = NoToken
                    /\ q.dl.eventsCount = Len(Flatten(q.rx)))
  /\ [][\A r \in Reqs:
          PublishStep(r) =>
            LET p == CurPath(req[r])
                date == CurDate(req[r])
            IN /\ p \in DOMAIN files'
               /\ files'[p] = LogData(Flatten(req'[r].rx))
               /\ \A v \in RemoteVersions:
                    req'[r].rxVers = {v} =>
                      files'[p] = LogData(InWindow(CurGroup(req[r]), date,
                                                   date + DayMs - 1, v))
     ]_vars

\* a drain of two pages has been published
C4_Witness ==
  \E r \in Reqs:
    /\ req[r].pc = "resume"
    /\ req[r].dl.ok
    /\ Len(req[r].sent) = 2
    /\ CurPath(req[r]) \in DOMAIN files
    /\ Len(files[CurPath(req[r])]) = 3

\* C5: a drain that ends with no event leaves a zero-byte file under the
\* canonical name, and no request without force starts a drain for a shard
\* it finds as such a marker.
C5_EmptyMarkerResolves ==
  /\ [](\A r \in Reqs:
          (req[r].pc \in {"fetch", "resume"} /\ ~req[r].force) => req[r].seen # "empty")
  /\ [][\A r \in Reqs:
          /\ (PublishStep(r) /\ req'[r].dl.eventsCount = 0) =>
               /\ CurPath(req[r]) \in DOMAIN files'
               /\ files'[CurPath(req[r])] = <<>>
               /\ FileSize(files'[CurPath(req[r])]) = 0
          /\ (HandlerStep(r) /\ req'[r].pc = "fetch" /\ ~req'[r].force) =>
               CurPath(req'[r]) \notin DOMAIN files
     ]_vars

\* a search that made no remote call scans a shard that is an empty marker
C5_Witness ==
  \E r \in Reqs:
    /\ req[r].kind = "search"
    /\ req[r].pc = "scan"
    /\ req[r].sent = <<>>
    /\ \E i \in DOMAIN req[r].required:
         /\ req[r].required[i] \in DOMAIN files
         /\ files[req[r].required[i]] = <<>>

\* C6: a crash between the write of the temporary file and the rename
\* leaves every canonical file as it was; a later request deletes the
\* leftover before it starts a drain for the shard (and when it passes the
\* shard without a drain), starts the drain from the first page with nothing
\* accumulated, and publishes what that drain returned.
C6_StaleTempDiscarded ==
  /\ [](\A r \in Reqs:
          LET q == req[r]
          IN /\ q.pc = "fetch" =>
                  /\ CurPath(q) \notin DOMAIN tmps
                  /\ q.acc = Flatten(q.rx)
             /\ (q.pc = "scan" \/ (q.pc = "done" /\ q.resp.code = 200)) =>
                  \A p \in Range(ShardPaths(q)): p \notin DOMAIN tmps)
  /\ [][/\ (phase = "serving" /\ phase' = "boot") => files' = files
        /\ \A r \in Reqs:
             /\ (HandlerStep(r) /\ req'[r].pc = "fetch") =>
                  /\ CurPath(req'[r]) \notin DOMAIN tmps'
                  /\ req'[r].acc = <<>>
                  /\ req'[r].token = NoToken
             /\ PublishStep(r) =>
                  /\ files'[CurPath(req[r])] = LogData(Flatten(req'[r].rx))
                  /\ CurPath(req[r]) \notin DOMAIN tmps'
     ]_vars

\* a request found the leftover of a crash, deleted it, and has published
\* the shard from a new drain
C6_Witness ==
  \E r \in Reqs:
    /\ req[r].pc = "resume"
    /\ req[r].dl.ok
    /\ req[r].cleaned
    /\ req[r].seen = "absent"
    /\ CurPath(req[r]) \in DOMAIN files
    /\ files[CurPath(req[r])] # <<>>

\* the body of the request was well formed
Valid(q) == ~Invalid(q.groups, q.startTime, q.endTime)

\* C7: /download answers with a report whatever fails in the drains: one
\* entry per (group, day) of the request in order, an `error` entry with the
\* message for each failed shard, the shards after a failed one attempted
\* like any other, and status `partial` exactly when some entry is `error`,
\* `completed` otherwise.
C7_PartialReport ==
  \A r \in Reqs:
    LET q == req[r]
    IN (q.kind = "download" /\ q.pc = "done" /\ Valid(q)) =>
         /\ q.resp.code = 200
         /\ Len(q.results) = Len(ShardPaths(q))
         /\ \A i \in DOMAIN q.results:
              /\ EntryPath(q.results[i]) = ShardPaths(q)[i]
              /\ q.results[i].status \in {"downloaded", "skipped", "error"}
              /\ q.results[i].status = "error" <=> q.results[i].error \in ErrMsgs
              /\ q.results[i].status = "error" =>
                   q.results[i].eventsCount = Undefined
         /\ q.resp.status \in {"partial", "completed"}
         /\ q.resp.status = "partial" <=>
              (\E i \in DOMAIN q.results: q.results[i].status = "error")
         /\ q.failed <=> (\E i \in DOMAIN q.results: q.results[i].status = "error")

\* a report whose first shard failed and whose second was downloaded
C7_Witness ==
  \E r \in Reqs:
    /\ req[r].kind = "download"
    /\ req[r].pc = "done"
    /\ req[r].resp.status = "partial"
    /\ Len(req[r].results) = 2
    /\ req[r].results[1].status = "error"
    /\ req[r].results[2].status = "downloaded"
    /\ req[r].results[2].eventsCount > 0

IsSorted(events) ==
  \A i \in 1..(Len(events) - 1): events[i].timestamp <= events[i + 1].timestamp

\* C8: /search fails as a whole, with no event in the response, when a
\* download it needs fails; it scans only after every required shard is
\* resolved, and a successful response is sorted and was computed with every
\* required shard present.
C8_QueryFailsFast ==
  \A r \in Reqs:
    LET q == req[r]
    IN (q.kind = "search" /\ Valid(q)) =>
         /\ q.pc = "scan" =>
              /\ ~q.failed
              /\ Range(q.required) = Range(ShardPaths(q))
              /\ \A p \in Range(q.required): p \in DOMAIN files
         /\ q.pc = "done" =>
              /\ q.resp.code \in {200, 500}
              /\ q.resp.code = 500 <=> q.failed
              /\ q.resp.code = 500 => q.resp.events = <<>>
              /\ q.resp.code = 200 =>
                   /\ IsSorted(q.resp.events)
                   /\ q.fi = Len(q.required) + 1
                   /\ Range(q.required) = Range(ShardPaths(q))
                   /\ \A p \in Range(q.required): p \in DOMAIN files

\* a search failed on its second shard after it had downloaded the first
C8_Witness ==
  \E r \in Reqs:
    /\ req[r].kind = "search"
    /\ req[r].pc = "done"
    /\ req[r].resp.code = 500
    /\ req[r].di = 2
    /\ Len(req[r].required) = 1
    /\ req[r].required[1] \in DOMAIN files
    /\ files[req[r].required[1]] # <<>>

\* C9: a search that reads a shard while the shard is published again has
\* read, at the end of the file, either all of the content the file had when
\* it was opened or all of a content published meanwhile.
C9_ReaderSeesCompleteContent ==
  \A r \in Reqs:
    (req[r].pc = "scan" /\ req[r].rd.open /\ req[r].rd.buf = <<>>) =>
      req[r].rd.got \in ({req[r].rd.snap} \cup req[r].rd.news)

\* r published a shard that it had found absent and that another request
\* has published since
RacedPublishStep(r) ==
  /\ PublishStep(r)
  /\ req[r].seen = "absent"
  /\ CurPath(req[r]) \in DOMAIN files

\* C10: when two requests found the same shard absent and both drained and
\* published it, the canonical file after each publish is the whole output
\* of the drain that published last, a canonical file changes only by such
\* a publish, and the two drains of one (group, day) have the same output
\* when the remote held the same data throughout.
C10_LastWriterWins ==
  /\ [](\A r1, r2 \in Reqs:
          LET q1 == req[r1]
              q2 == req[r2]
          IN (/\ r1 # r2
              /\ q1.pc = "resume" /\ q1.dl.ok
              /\ q2.pc = "resume" /\ q2.dl.ok
              /\ CurGroup(q1) = CurGroup(q2) /\ CurDate(q1) = CurDate(q2)
              /\ q1.rxVers = q2.rxVers /\ Cardinality(q1.rxVers) = 1)
             => /\ q1.acc = q2.acc
                /\ files[CurPath(q1)] = LogData(q1.acc))
  /\ [][/\ \A r \in Reqs:
             RacedPublishStep(r) =>
               /\ files'[CurPath(req[r])] = LogData(Flatten(req'[r].rx))
               /\ \A p \in DOMAIN files: p # CurPath(req[r]) => files'[p] = files[p]
        /\ \A p \in DOMAIN files:
             (phase' = "serving" /\ phase = "serving") =>
               /\ p \in DOMAIN files'
               /\ files'[p] # files[p] =>
                    \E r \in Reqs: PublishStep(r) /\ CurPath(req[r]) = p
     ]_vars

\* two requests found the same shard absent and both have published it
C10_Witness ==
  \E r1, r2 \in Reqs:
    /\ r1 # r2
    /\ req[r1].pc = "resume" /\ req[r1].dl.ok /\ req[r1].seen = "absent"
    /\ req[r2].pc = "resume" /\ req[r2].dl.ok /\ req[r2].seen = "absent"
    /\ CurPath(req[r1]) = CurPath(req[r2])
    /\ CurGroup(req[r1]) = CurGroup(req[r2])
    /\ files[CurPath(req[r1])] # <<>>

\* ---------------------------------------------------------------- Searcher

\* the lines of the existing shards of a path list, in the order of the scan
RECURSIVE StoredLines(_, _)
StoredLines(cache, paths) ==
  IF paths = <<>> THEN <<>>
  ELSE (IF Head(paths) \in DOMAIN cache THEN cache[Head(paths)] ELSE <<>>)
       \o StoredLines(cache, Tail(paths))

\* the pattern occurs in the message
Contains(message, pattern) ==
  \E i, j \in 0..Len(message): SubSeq(message, i + 1, j) = pattern

\* the line is an event the call asks for
Wanted(q, line) ==
  /\ line.k = "json"
  /\ q.startTime <= line.ts
  /\ line.ts <= q.endTime
  /\ (q.pattern = <<>> \/ Contains(line.msg, q.pattern))

Occurrences(s, e) == Cardinality({i \in DOMAIN s : s[i] = e})

\* the search of r has returned its events
Answered(r) ==
  req[r].kind = "search" /\ req[r].pc = "done" /\ req[r].resp.code = 200

\* C11: the events a search returns are exactly the events stored in the
\* existing shards of its path list with startTime <= timestamp <= endTime
\* and, when the pattern is not empty, a message in which the pattern occurs;
\* each as often as it is stored.
C11_ExactlyTheMatchingEvents ==
  \A r \in Reqs:
    Answered(r) =>
      LET q == req[r]
          stored == StoredLines(files, q.required)
          events == Range(q.resp.events)
                      \cup {Parse(stored[i]) : i \in {j \in DOMAIN stored : stored[j].k = "json"}}
      IN \A e \in events:
           Occurrences(q.resp.events, e)
             = Cardinality({i \in DOMAIN stored :
                              Wanted(q, stored[i]) /\ Parse(stored[i]) = e})

\* a search with a pattern over a window that ends at the timestamp of a
\* stored event returned that event, in whose message the pattern is not at
\* the start, and left out a stored event before the window and one in the
\* window whose message does not match
C11_Witness ==
  \E r \in Reqs:
    /\ Answered(r)
    /\ req[r].pattern # <<>>
    /\ \E e \in Range(req[r].resp.events):
         /\ e.timestamp = req[r].endTime
         /\ e.message[1] # req[r].pattern[1]
    /\ \E i, j \in DOMAIN StoredLines(files, req[r].required):
         LET stored == StoredLines(files, req[r].required)
         IN /\ stored[i].k = "json" /\ stored[i].ts < req[r].startTime
            /\ stored[j].k = "json"
            /\ req[r].startTime <= stored[j].ts /\ stored[j].ts <= req[r].endTime
            /\ ~Contains(stored[j].msg, req[r].pattern)

\* the place of the i-th scanned event in the stably sorted result
Rank(m, i) ==
  1 + Cardinality({j \in DOMAIN m :
                     \/ m[j].timestamp < m[i].timestamp
                     \/ (m[j].timestamp = m[i].timestamp /\ j < i)})

\* the wanted events in scan order: list order of the paths, then line order
InScanOrder(q) ==
  LET lines == SelectSeq(StoredLines(files, q.required), LAMBDA l: Wanted(q, l))
  IN [i \in DOMAIN lines |-> Parse(lines[i])]

\* C12: the events a search returns are in ascending order of timestamp
\* whatever the order of the paths, and events with the same timestamp are
\* in the order of the scan (order of the paths, then order of the lines).
C12_StableAscending ==
  \A r \in Reqs:
    Answered(r) =>
      LET m == InScanOrder(req[r])
          out == req[r].resp.events
      IN /\ Len(out) = Len(m)
         /\ IsSorted(out)
         /\ \A i \in DOMAIN m: out[Rank(m, i)] = m[i]

\* a search scanned the later shard first and returned two different events
\* of one timestamp, the one of the shard scanned first before the other
C12_Witness ==
  \E r \in Reqs:
    /\ Answered(r)
    /\ req[r].required = <<P2, P1>>
    /\ P1 \in DOMAIN files /\ P2 \in DOMAIN files
    /\ req[r].matching # req[r].resp.events
    /\ \E i \in 1..(Len(req[r].resp.events) - 1):
         LET a == req[r].resp.events[i]
             b == req[r].resp.events[i + 1]
         IN /\ a.timestamp = b.timestamp
            /\ a # b
            /\ Stringify(a) \in Range(files[P2])
            /\ Stringify(b) \in Range(files[P1])
            /\ Stringify(a) \notin Range(files[P1])

\* r read a chunk of lines from the shard it has open
ChunkStep(r) ==
  /\ req[r].pc = "scan" /\ req[r].rd.open
  /\ req'[r].rd.open
  /\ req'[r].rd.got # req[r].rd.got

\* C13: a blank line and a line that does not parse are passed over: the
\* scan goes on with the next line, keeps what it has collected, ends with
\* its result, returns every wanted event before and after such a line, of
\* that shard and of the later ones, and leaves the shard as it is.
C13_BrokenLineSkipped ==
  /\ [](\A r \in Reqs:
          (req[r].kind = "search" /\ req[r].pc = "done" /\ req[r].required # <<>>
             /\ req[r].fi > Len(req[r].required)) =>
            /\ req[r].resp.code = 200
            /\ \A l \in Range(StoredLines(files, req[r].required)):
                 Wanted(req[r], l) => Parse(l) \in Range(req[r].resp.events))
  /\ [][\A r \in Reqs:
          ChunkStep(r) =>
            LET chunk == SubSeq(req'[r].rd.got, Len(req[r].rd.got) + 1, Len(req'[r].rd.got))
                found == SelectSeq(chunk, LAMBDA l: Wanted(req[r], l))
            IN /\ req'[r].pc = "scan"
               /\ req'[r].matching = req[r].matching \o [i \in DOMAIN found |-> Parse(found[i])]
               /\ files' = files
     ]_vars

\* a search has returned the events before and after a line that does not
\* parse, and an event of the shard scanned after that one
C13_Witness ==
  \E r \in Reqs:
    /\ Answered(r)
    /\ Len(req[r].required) >= 2
    /\ req[r].required[1] \in DOMAIN files
    /\ req[r].required[Len(req[r].required)] \in DOMAIN files
    /\ LET c == files[req[r].required[1]]
           d == files[req[r].required[Len(req[r].required)]]
       IN /\ \E i, j, k \in DOMAIN c:
               /\ i < j /\ j < k
               /\ c[j].k = "bad"
               /\ Wanted(req[r], c[i]) /\ Wanted(req[r], c[k])
               /\ Parse(c[i]) \in Range(req[r].resp.events)
               /\ Parse(c[k]) \in Range(req[r].resp.events)
          /\ \E i \in DOMAIN d:
               /\ Wanted(req[r], d[i])
               /\ Parse(d[i]) \in Range(req[r].resp.events)
               /\ Stringify(Parse(d[i])) \notin Range(c)

\* r took a step of searchLocalLogs
SearcherStep(r) == req'[r] # req[r] /\ req[r].pc = "scan"

\* C14: a step of searchLocalLogs changes no shard, no temporary file and no
\* directory and makes no remote call; at a path that does not exist it
\* goes to the next path with its result as it was, and the call ends with
\* its result, not with an error.
C14_SearcherReadOnly ==
  /\ [](\A r \in Reqs:
          (req[r].kind = "search" /\ req[r].pc = "done"
             /\ req[r].fi > Len(req[r].required)) => req[r].resp.code = 200)
  /\ [][\A r \in Reqs:
          SearcherStep(r) =>
            /\ files' = files /\ tmps' = tmps /\ dirs' = dirs
            /\ root' = root /\ strays' = strays
            /\ req'[r].pc \in {"scan", "done"}
            /\ req'[r].sent = req[r].sent
            /\ req'[r].rx = req[r].rx
            /\ (/\ ~req[r].rd.open
                /\ req[r].fi <= Len(req[r].required)
                /\ req[r].required[req[r].fi] \notin DOMAIN files) =>
                 /\ req'[r].fi = req[r].fi + 1
                 /\ req'[r].matching = req[r].matching
                 /\ req'[r].pc = "scan"
                 /\ ~req'[r].rd.open
     ]_vars

\* a search whose path list has a path that does not exist has returned the
\* events of the other shards, and the path still does not exist
C14_Witness ==
  \E r \in Reqs:
    /\ Answered(r)
    /\ req[r].resp.events # <<>>
    /\ req[r].sent = <<>>
    /\ \E i \in 1..(Len(req[r].required) - 1):
         req[r].required[i] \notin DOMAIN files

\* ---------------------------------------------------------------- Pruner

\* index.js ran pruneCache
PruneStep == phase = "boot" /\ phase' = "starting"

\* the number of the UTC day of an instant
DayOf(t) == t \div DayMs

\* C15: a run of pruneCache removes a shard exactly when the day in its name
\* is before the day of `now` minus MAX_CACHE_AGE_DAYS (10): the shard of the
\* day 10 days before stays, the shard of the day 11 days before goes; a
\* shard that stays keeps its content, and nothing but the day decides.
C15_PruneBoundary ==
  [][PruneStep =>
       /\ DOMAIN files' \subseteq DOMAIN files
       /\ \A p \in DOMAIN files:
            /\ (p \notin DOMAIN files') <=> (p[2] < DayOf(clock') - MAX_CACHE_AGE_DAYS)
            /\ p[2] = DayOf(clock') - 10 => p \in DOMAIN files'
            /\ p[2] = DayOf(clock') - 11 => p \notin DOMAIN files'
            /\ p \in DOMAIN files' => files'[p] = files[p]
       /\ \A p1, p2 \in DOMAIN files:
            p1[2] = p2[2] => (p1 \in DOMAIN files' <=> p2 \in DOMAIN files')
    ]_vars

\* the process started on day 12 and removed one file: the shard of day 1 is
\* gone, the shards of day 2 (10 days before) and day 3 are there
C15_Witness ==
  /\ phase = "starting"
  /\ DayOf(clock) = 12
  /\ prunedCount = 1
  /\ strays = {} /\ tmps = <<>>
  /\ <<DirA, 1>> \notin DOMAIN files
  /\ <<DirA, 2>> \in DOMAIN files
  /\ <<DirA, 3>> \in DOMAIN files

\* C16: a run of pruneCache removes no entry that lies directly below
\* CACHE_DIR and no file of a group directory whose name is not
\* <YYYY-MM-DD>.log (a temporary file among them), and goes on to the end.
C16_ForeignEntriesSkipped ==
  [][PruneStep => (strays' = strays /\ tmps' = tmps)]_vars

\* C17: a run of pruneCache that finds no CACHE_DIR removes nothing, creates
\* nothing (CACHE_DIR stays absent) and does not fail: index.js goes on to
\* start the server.
C17_AbsentRootNoOp ==
  /\ []((phase = "starting" /\ ~root) => ENABLED Start)
  /\ [][(PruneStep /\ ~root) =>
          /\ root' = FALSE
          /\ files' = files /\ tmps' = tmps /\ dirs' = dirs /\ strays' = strays
          /\ files' = <<>> /\ dirs' = {}
          /\ prunedCount' = 0
     ]_vars

\* the process has started with no CACHE_DIR and serves
C17_Witness ==
  /\ phase = "serving"
  /\ ~root
  /\ clock > 0
  /\ dirs = {}

\* ---------------------------------------------------------------- lifecycle of a shard

\* C18: a canonical file that exists is there after every step that is not
\* a run of pruneCache (a download, forced or not, that succeeds or fails,
\* a search, the cleanup of a temporary file, a crash), and a run of
\* pruneCache removes it only when its day is before the cutoff.
C18_OnlyPrunerDestroys ==
  [][\A p \in DOMAIN files:
       /\ ~PruneStep => p \in DOMAIN files'
       /\ p \notin DOMAIN files' =>
            /\ PruneStep
            /\ p[2] < DayOf(clock') - MAX_CACHE_AGE_DAYS
    ]_vars

\* a forced download of a shard that exists has removed the leftover
\* temporary file of the shard and then failed: the shard is there
C18_Witness ==
  \E r \in Reqs:
    /\ req[r].pc = "resume"
    /\ ~req[r].dl.ok
    /\ req[r].force
    /\ req[r].cleaned
    /\ req[r].seen = "complete"
    /\ CurPath(req[r]) \in DOMAIN files

\* r published a shard that exists, in a forced download
ForcedRepublishStep(r) ==
  PublishStep(r) /\ req[r].force /\ CurPath(req[r]) \in DOMAIN files

\* the handler of /download pushed the entry of a download that succeeded
DownloadedEntryStep(r) ==
  HandlerStep(r) /\ req[r].pc = "resume" /\ req[r].kind = "download" /\ req[r].dl.ok

\* C19 (as the code has it): the content of a canonical file changes only
\* when a download publishes it, and the download is a forced one or one that
\* had found the shard absent when it visited it; a forced download that
\* succeeds on a shard that exists leaves exactly the events of its drain
\* (nothing of the old content, nothing appended) and is reported
\* `downloaded` with the size of that drain, which is the old count when the
\* remote holds the data the old content came from; no request without force
\* starts a download for a shard it finds.
C19_ChangedOnlyByDownload ==
  [][/\ \A p \in DOMAIN files:
          (p \in DOMAIN files' /\ files'[p] # files[p]) =>
            \E r \in Reqs:
              /\ PublishStep(r)
              /\ CurPath(req[r]) = p
              /\ (req[r].force \/ req[r].seen = "absent")
     /\ \A r \in Reqs:
          /\ ForcedRepublishStep(r) =>
               LET path == CurPath(req[r])
                   date == CurDate(req[r])
                   drained == Flatten(req'[r].rx)
               IN /\ files'[path] = LogData(drained)
                  /\ req'[r].dl.eventsCount = Len(drained)
                  /\ NumEvents(files'[path]) = Len(drained)
                  /\ \A v \in RemoteVersions:
                       (/\ req'[r].rxVers = {v}
                        /\ files[path] = LogData(InWindow(CurGroup(req[r]), date,
                                                          date + DayMs - 1, v))) =>
                         /\ req'[r].dl.eventsCount = NumEvents(files[path])
                         /\ files'[path] = files[path]
          /\ DownloadedEntryStep(r) =>
               LET e == req'[r].results[Len(req[r].results) + 1]
               IN /\ e.status = "downloaded"
                  /\ e.eventsCount = req[r].dl.eventsCount
                  /\ EntryPath(e) = CurPath(req[r])
          /\ (HandlerStep(r) /\ req'[r].pc = "fetch" /\ ~req'[r].force) =>
               CurPath(req'[r]) \notin DOMAIN files'
    ]_vars

\* a forced download has replaced a shard with events by the two events the
\* remote holds since its data changed
C19_Witness ==
  \E r \in Reqs:
    /\ req[r].pc = "resume"
    /\ req[r].dl.ok
    /\ req[r].force
    /\ req[r].seen = "complete"
    /\ req[r].rxVers = {2}
    /\ CurPath(req[r]) \in DOMAIN files
    /\ files[CurPath(req[r])] = LogData(req[r].acc)
    /\ req[r].dl.eventsCount = 2

\* the shard holds events that a download of the group of r has stored
OwnData(r, p) ==
  /\ files[p] # <<>>
  /\ files[p] \in {LogData(o) : o \in PossibleDrains(CurGroup(req[r]), CurDate(req[r]))}

\* C19 (as the specification has it): the content of a canonical file
\* changes only when a forced download publishes it (a download for another
\* group whose name gives the same path set aside).
C19_ChangedOnlyByForced ==
  [][\A p \in DOMAIN files:
       (p \in DOMAIN files' /\ files'[p] # files[p]) =>
         \E r \in Reqs:
           /\ PublishStep(r)
           /\ CurPath(req[r]) = p
           /\ (req[r].force \/ ~OwnData(r, p))
    ]_vars

\* ---------------------------------------------------------------- idempotence

\* the first of the two calls reported no error
AllResolved(prev) == \A i \in DOMAIN prev: prev[i].status # "error"

\* C20: when a /download without force is repeated with the same body, the
\* second report has `skipped`, with the eventsCount of the first report, for
\* every shard the first report has as `downloaded` (or `skipped`); the
\* second call starts a download only for a shard the first reported as
\* `error`, so none at all when the remote was available.
C20_RepeatSkips ==
  \A r \in Reqs:
    LET q == req[r]
    IN q.prev # <<>> =>
         /\ q.pc \in {"fetch", "resume"} =>
              /\ Len(q.results) < Len(q.prev)
              /\ q.prev[Len(q.results) + 1].status = "error"
         /\ AllResolved(q.prev) => (q.pc = "done" /\ q.rx = <<>> /\ q.sent = <<>>)
         /\ \A i \in DOMAIN q.results:
              /\ i <= Len(q.prev)
              /\ EntryPath(q.results[i]) = EntryPath(q.prev[i])
              /\ q.prev[i].status \in {"downloaded", "skipped"} =>
                   /\ q.results[i].status = "skipped"
                   /\ q.results[i].eventsCount = q.prev[i].eventsCount
         /\ q.pc = "done" => Len(q.results) = Len(q.prev)

\* the second call has reported `skipped` for the two shards the first call
\* downloaded, one with events and one with none
C20_Witness ==
  \E r \in Reqs:
    /\ req[r].pc = "done"
    /\ Len(req[r].prev) = 2
    /\ \E i, j \in DOMAIN req[r].prev:
         /\ req[r].prev[i].status = "downloaded" /\ req[r].prev[i].eventsCount > 0
         /\ req[r].prev[j].status = "downloaded" /\ req[r].prev[j].eventsCount = 0
         /\ req[r].results[i].status = "skipped"
         /\ req[r].results[i].eventsCount = req[r].prev[i].eventsCount
         /\ req[r].results[j].status = "skipped" /\ req[r].results[j].eventsCount = 0

\* ---------------------------------------------------------------- a sequence of calls

\* what the remote holds for the groups of a call inside its window
HeldEvents(q, v) ==
  Flatten([i \in 1..Len(q.groups) |-> InWindow(q.groups[i], q.startTime, q.endTime, v)])

\* the call in the slot follows the /download of the same window
AfterDownload(q) == Len(q.prev) = 1 /\ q.prev[1].kind = "download"

\* C21: a /search without pattern that follows a /download of the same
\* window, while the remote's data stays what it is, returns exactly the
\* events the remote holds for the window: every one of them as often as the
\* remote holds it, no other, in ascending order of timestamp.
C21_RoundTrip ==
  \A r \in Reqs:
    LET q == req[r]
    IN (Answered(r) /\ AfterDownload(q) /\ remoteVer = 1) =>
         LET held == HeldEvents(q, 1)
             events == q.resp.events
         IN /\ Len(events) = Len(held)
            /\ \A e \in Range(held) \cup Range(events):
                 Occurrences(events, e) = Occurrences(held, e)
            /\ IsSorted(events)

\* the call before the one in the slot left every shard of the window
\* resolved: a /search that succeeded, or a /download without error entry
LeftResolved(q) ==
  /\ q.prev # <<>>
  /\ LET last == q.prev[Len(q.prev)]
     IN /\ last.code = 200
        /\ last.kind = "download" => last.status = "completed"

\* C22: /search starts a download only for a shard of its window that does
\* not exist, and none for one that does; it scans, and answers, with every
\* shard of the window present and in its path list; a /search that follows
\* a successful /search (or a complete /download) of the same window makes
\* no remote call at all, and after a /search it returns the same events.
C22_SearchEnsuresShards ==
  \A r \in Reqs:
    LET q == req[r]
    IN q.kind = "search" =>
         /\ q.pc \in {"fetch", "resume"} => q.seen = "absent"
         /\ (q.pc = "scan" \/ Answered(r)) =>
              /\ Range(ShardPaths(q)) \subseteq DOMAIN files
              /\ Range(q.required) = Range(ShardPaths(q))
         /\ LeftResolved(q) =>
              /\ q.pc \in {"scan", "done"}
              /\ q.sent = <<>>
              /\ q.rx = <<>>
              /\ q.pc = "done" =>
                   /\ q.resp.code = 200
                   /\ q.prev[Len(q.prev)].kind = "search" =>
                        q.resp.events = q.prev[Len(q.prev)].events

\* a /search on an empty cache has downloaded the shards of two groups and
\* returned two events; the remote has changed since and holds no event of
\* the window; the same /search again has returned the two events
C22_Witness ==
  \E r \in Reqs:
    LET q == req[r]
    IN /\ Answered(r)
       /\ Len(q.prev) = 1
       /\ q.prev[1].kind = "search"
       /\ q.prev[1].code = 200
       /\ q.groups = <<GA, GC>>
       /\ remoteVer = 2
       /\ HeldEvents(q, 2) = <<>>
       /\ Len(q.resp.events) = 2
       /\ q.resp.events = q.prev[1].events
       /\ q.sent = <<>>

\* ---------------------------------------------------------------- validation

\* a request arrived at slot r: the handler ran from its start
ArrivalStep(r) == StepOf(r) /\ req[r].pc \in {"idle", "done"}

\* the body has no group, or lacks a time bound
Malformed(q) == Len(q.groups) = 0 \/ q.startTime = 0 \/ q.endTime = 0

\* C23: a /download or /search whose group list is empty, or whose start or
\* end time is missing, is answered with status 400 by the step in which it
\* arrives; that step makes no remote call and leaves the cache directory as
\* it is: no directory, shard or temporary file created, changed or removed.
\* A request with groups and both bounds is not answered with 400.
C23_RejectedBeforeIO ==
  [][\A r \in Reqs:
       ArrivalStep(r) =>
         IF Malformed(req'[r])
         THEN /\ req'[r].pc = "done"
              /\ req'[r].resp = BadRequest
              /\ req'[r].sent = <<>> /\ req'[r].rx = <<>>
              /\ req'[r].results = <<>> /\ req'[r].required = <<>>
              /\ files' = files /\ tmps' = tmps /\ dirs' = dirs /\ root' = root
         ELSE req'[r].resp.code # 400
    ]_vars

\* a /search without end time and a /download without group have been
\* answered with 400 on a process that has no cache directory yet
C23_Witness ==
  \E r \in Reqs:
    /\ req[r].pc = "done"
    /\ req[r].resp.code = 400
    /\ \/ req[r].kind = "search" /\ req[r].endTime = 0 /\ req[r].groups # <<>>
       \/ req[r].kind = "download" /\ req[r].groups = <<>>
    /\ ~root /\ dirs = {} /\ files = <<>>

\* ---------------------------------------------------------------- window expansion

\* the number of the calendar day, in the zone of the process, that holds t
LocalDay(t) == (t + OffsetAt(t)) \div DayMs

\* the calendar days from the day of startTime to the day of endTime
DaysOfWindow(q) ==
  IF LocalDay(q.endTime) >= LocalDay(q.startTime)
  THEN LocalDay(q.endTime) - LocalDay(q.startTime) + 1
  ELSE 0

PathCall(r) == req[r].pc = "path"

\* the directory name of the path the call returned
SafeNameOf(r) == req[r].required[1][1]

\* C25: the name sanitizeLogGroupName gives has the length of its input,
\* holds only letters, digits, `_` and `-`, has every such character of the
\* input at its place and `_` at the place of every other character; it is
\* its own sanitized name, and the same input gives the same name.
\* '/aws/ecs/my-app' gives '_aws_ecs_my-app', 'log.group-name/123' gives
\* 'log_group-name_123', 'simple_name' stays.
C25_SanitizeContract ==
  /\ \A r \in Reqs:
       PathCall(r) =>
         LET x == req[r].groups[1]
             name == SafeNameOf(r)
         IN /\ Len(name) = Len(x)
            /\ \A i \in 1..Len(x):
                 /\ name[i] \in AllowedChars
                 /\ x[i] \in AllowedChars => name[i] = x[i]
                 /\ x[i] \notin AllowedChars => name[i] = "_"
            /\ sanitizeLogGroupName(name) = name
            /\ \A r2 \in Reqs:
                 (PathCall(r2) /\ req[r2].groups = req[r].groups)
                   => SafeNameOf(r2) = name
  /\ sanitizeLogGroupName(AwsEcsMyApp)
       = <<"_", "a", "w", "s", "_", "e", "c", "s", "_", "m", "y", "-", "a", "p", "p">>
  /\ sanitizeLogGroupName(LogGroupName123)
       = <<"l", "o", "g", "_", "g", "r", "o", "u", "p", "-", "n", "a", "m", "e",
           "_", "1", "2", "3">>
  /\ sanitizeLogGroupName(SimpleName) = SimpleName

\* one call has turned the two characters of 'log.group-name/123' that are
\* not allowed into `_`, another has left 'simple_name' as it is
C25_Witness ==
  \E r, r2 \in Reqs:
    /\ PathCall(r) /\ req[r].groups = <<LogGroupName123>>
    /\ SafeNameOf(r) # LogGroupName123
    /\ Cardinality({i \in 1..18 : SafeNameOf(r)[i] # LogGroupName123[i]}) = 2
    /\ PathCall(r2) /\ req[r2].groups = <<SimpleName>>
    /\ SafeNameOf(r2) = SimpleName

\* C26: two calls of getLogFilePath for different log groups, or for
\* different UTC days, return different paths.
C26_DistinctKeysDistinctPaths ==
  \A r, r2 \in Reqs:
    (PathCall(r) /\ PathCall(r2)
     /\ (req[r].groups # req[r2].groups
         \/ DayOf(req[r].startTime) # DayOf(req[r2].startTime)))
      => req[r].required # req[r2].required

\* the number of the UTC day of 2025-01-15T10:00:00Z
\* (1736935200000 ms \div 86400000)
Day2025 == 20103

\* the characters of the name of a shard file are digits and hyphens in the
\* form YYYY-MM-DD, followed by .log
IsoShardName(name) ==
  /\ Len(name) = 14
  /\ \A i \in {1, 2, 3, 4, 6, 7, 9, 10}: name[i] \in Range(DigitChars)
  /\ name[5] = "-" /\ name[8] = "-"
  /\ SubSeq(name, 11, 14) = <<".", "l", "o", "g">>

\* C27: getLogFilePath(group, date) returns the path
\* <sanitized group>/<YYYY-MM-DD>.log below the cache directory, the date
\* being the UTC calendar day that holds the instant `date`; the same
\* arguments give the same path, whatever the cache directory holds.
\* '/test/log/group' at 10:00 UTC of 1970-01-02 gives
\* _test_log_group/1970-01-02.log, and the name for the day of
\* 2025-01-15T10:00:00Z is 2025-01-15.log.
C27_PathOfShard ==
  \A r \in Reqs:
    PathCall(r) =>
      LET g == req[r].groups[1]
          date == req[r].startTime
          p == req[r].required[1]
      IN /\ Len(req[r].required) = 1
         /\ Len(p) = 2
         /\ p[1] = sanitizeLogGroupName(g)
         /\ p[2] * DayMs <= date /\ date < (p[2] + 1) * DayMs
         /\ IsoShardName(ShardName(p[2]))
         /\ FileDateOf(ShardName(p[2])) = Num(p[2] * DayMs)
         /\ (g = TestLogGroup /\ date = D1 + TenOClock) =>
              /\ p[1] = <<"_", "t", "e", "s", "t", "_", "l", "o", "g", "_",
                          "g", "r", "o", "u", "p">>
              /\ ShardName(p[2]) = <<"1", "9", "7", "0", "-", "0", "1", "-", "0",
                                     "2", ".", "l", "o", "g">>
         /\ ShardName(Day2025)
              = <<"2", "0", "2", "5", "-", "0", "1", "-", "1", "5", ".", "l", "o", "g">>
         /\ \A r2 \in Reqs:
              (PathCall(r2) /\ req[r2].groups = req[r].groups
               /\ req[r2].startTime = date) => req[r2].required = req[r].required

\* the path for '/test/log/group' at 10:00 UTC of a day has been returned
\* twice, the second time when the cache directory held other directories
C27_Witness ==
  /\ \A r \in Reqs:
       /\ PathCall(r)
       /\ req[r].groups = <<TestLogGroup>>
       /\ req[r].startTime = D1 + TenOClock
       /\ req[r].required = <<LogFilePath(TestLogGroup, D1 + TenOClock)>>
  /\ <<>> \in dirs
  /\ sanitizeLogGroupName(GA) \in dirs

\* C28: ensureLogGroupDir leaves the directory of the group in existence and
\* changes nothing else: called when the directory exists, whoever created
\* it, it changes nothing at all, so a second call is without effect; the
\* shards and temporary files of the cache directory stay as they are.
\* Every call of getLogFilePath, by whichever caller and in whichever order,
\* has this effect and returns its path.
C28_EnsureDirIdempotent ==
  /\ [](\A g \in AddressGroups:
          LET dir == sanitizeLogGroupName(g)
              w1 == ensureLogGroupDir(World, g)
          IN /\ w1.dirs = dirs \cup {dir}
             /\ w1.root
             /\ w1.files = files /\ w1.tmps = tmps
             /\ dir \in dirs => w1 = World
             /\ ensureLogGroupDir(w1, g) = w1)
  /\ [][\A r \in Reqs:
          req'[r] # req[r] =>
            /\ PathCall(r)'
            /\ dirs' = dirs \cup {sanitizeLogGroupName(req'[r].groups[1])}
            /\ root'
            /\ files' = files /\ tmps' = tmps
       ]_vars

\* two callers have asked for paths in the directory a_b, one by the name
\* a/b and one by the name a.b, and the shard that was in it is still there
C28_Witness ==
  /\ PathCall("r1") /\ req["r1"].groups = <<GA>>
  /\ PathCall("r2") /\ req["r2"].groups = <<GB>>
  /\ dirs = {sanitizeLogGroupName(GA)}
  /\ OldShard \in DOMAIN files
  /\ files[OldShard] # <<>>

\* ---------------------------------------------------------------- startup and requests

\* C29: pruneCache runs in the step that starts the process, before the
\* server is started: a process goes from its start through the prune to
\* serving and leaves serving only by dying; no request is in any slot
\* before the server runs, so the prune runs with no download, publish or
\* search in flight and changes none; while the server runs no file is
\* removed from the cache and pruneCache does not run again.
C29_PruneBeforeServing ==
  /\ [](phase # "serving" => \A r \in Reqs: req[r] = Idle)
  /\ [][/\ phase' # phase =>
             <<phase, phase'>> \in {<<"boot", "starting">>, <<"starting", "serving">>,
                                    <<"serving", "boot">>}
        /\ PruneStep => (req' = req /\ \A r \in Reqs: req[r].pc = "idle")
        /\ (\E p \in DOMAIN files: p \notin DOMAIN files') => PruneStep
        /\ phase = "starting" =>
             (phase' # "boot" /\ files' = files /\ tmps' = tmps /\ req' = req)
        /\ (phase = "serving" /\ phase' = "serving") =>
             (DOMAIN files \subseteq DOMAIN files' /\ prunedCount' = 0)
     ]_vars

\* after requests had filled the cache the process was started again, and
\* its prune has removed a shard and kept another while no request is in
\* any slot
C29_Witness ==
  /\ phase = "starting"
  /\ prunedCount > 0
  /\ files # <<>>
  /\ \A r \in Reqs: req[r] = Idle
  /\ \A p \in DOMAIN files: p[2] >= DayOf(clock) - MAX_CACHE_AGE_DAYS

\* C30: a step of the serving process never leaves a temporary file behind
\* that was not there before it: the publish writes and renames within the
\* step, so the temporary files that exist while requests run are leftovers
\* of a process that died.  No temporary file exists for the shard of a
\* download in flight; the cleanup of a request removes only leftovers of
\* shards of its own window and changes no other request; a publish stores
\* exactly the data of its drain and leaves the temporary files as they
\* were, whatever other requests have cleaned up on the same shard.
C30_PublishIsOneStep ==
  /\ [](\A r \in Reqs:
          req[r].pc = "fetch" => CurPath(req[r]) \notin DOMAIN tmps)
  /\ [][/\ (phase = "serving" /\ phase' = "serving") =>
             \A p \in DOMAIN tmps': p \in DOMAIN tmps /\ tmps'[p] = tmps[p]
        /\ \A r \in Reqs:
             /\ (HandlerStep(r) /\ tmps' # tmps) =>
                  /\ \A p \in (DOMAIN tmps) \ (DOMAIN tmps'):
                       /\ p \in Range(ShardPaths(req'[r]))
                       /\ \A x \in Reqs:
                            req[x].pc = "fetch" => CurPath(req[x]) # p
                  /\ \A x \in Reqs \ {r}: req'[x] = req[x]
                  /\ files' = files
             /\ PublishStep(r) =>
                  /\ files'[CurPath(req[r])] = LogData(Flatten(req'[r].rx))
                  /\ tmps' = tmps
     ]_vars

\* one request has removed the leftover temporary file of a shard and is
\* still downloading the shard; another request has published the same
\* shard in the meantime
C30_Witness ==
  \E r, x \in Reqs:
    /\ r # x
    /\ req[r].pc = "fetch"
    /\ req[r].cleaned
    /\ req[x].pc = "resume"
    /\ req[x].dl.ok
    /\ CurPath(req[x]) = CurPath(req[r])
    /\ files[CurPath(req[x])] # <<>>

\* ---------------------------------------------------------------- fetch windows

\* the window downloadAndCacheLogs fetches for a date
FetchWindow(date) == [from |-> date, to |-> date + DayMs - 1]

\* C31: the fetch windows of the dates of a request follow each other
\* without gap and without overlap (each begins one millisecond after the
\* one before it ends), the first begins at or before startTime and the last
\* ends at or after endTime.
C31_WindowsTile ==
  \A r \in Reqs:
    LET q == req[r]
    IN (q.pc # "idle" /\ Valid(q) /\ q.startTime <= q.endTime) =>
         LET dates == getDateRange(q.startTime, q.endTime)
         IN /\ dates # <<>>
            /\ FetchWindow(dates[1]).from <= q.startTime
            /\ q.endTime <= FetchWindow(dates[Len(dates)]).to
            /\ \A i \in 1..(Len(dates) - 1):
                 FetchWindow(dates[i]).to + 1 = FetchWindow(dates[i + 1]).from

\* ---------------------------------------------------------------- isolation of groups

\* the remote holds the event, in some version of its data, for the group
HeldFor(g, e) == \E v \in RemoteVersions: e \in Range(RemoteEvents(g, v))

\* C32: every event a /search returns is an event the remote holds for a
\* group of the group list of that /search.
C32_GroupIsolation ==
  \A r \in Reqs:
    Answered(r) =>
      \A i \in DOMAIN req[r].resp.events:
        \E j \in DOMAIN req[r].groups: HeldFor(req[r].groups[j], req[r].resp.events[i])

\* ---------------------------------------------------------------- confinement of paths

\* C33: every shard and every temporary file lies in a directory below the
\* cache directory whose name is not empty and holds only letters, digits,
\* `_` and `-`, and is named YYYY-MM-DD.log (the temporary file with .tmp
\* after it); the directory exists.
C33_PathsConfined ==
  \A p \in (DOMAIN files) \cup (DOMAIN tmps):
    /\ Len(p) = 2
    /\ p[1] # <<>>
    /\ \A i \in DOMAIN p[1]: p[1][i] \in AllowedChars
    /\ p[1] \in dirs
    /\ IsoShardName(ShardName(p[2]))

\* ---------------------------------------------------------------- the report

\* C34: in the report of a /download every entry has one of the statuses
\* downloaded, skipped, error (each a status of the contract); totalDates is
\* the number of entries and the sum of downloaded, skipped and errors, each
\* of which is the number of entries with that status; empty is the number
\* of entries with eventsCount 0, none of which is an error entry, and the
\* shard of each of them holds no event.
C34_SummaryConsistent ==
  \A r \in Reqs:
    LET q == req[r]
        sum == q.resp.summary
        n(status) == Cardinality({i \in DOMAIN q.results : q.results[i].status = status})
        zero == {i \in DOMAIN q.results : q.results[i].eventsCount = 0}
    IN (q.kind = "download" /\ q.pc = "done" /\ q.resp.code = 200) =>
         /\ \A i \in DOMAIN q.results:
              /\ q.results[i].status \in {"downloaded", "skipped", "error"}
              /\ q.results[i].status \in {"downloaded", "skipped", "empty", "error"}
              /\ q.results[i].status = "error" <=> q.results[i].error # NoError
              /\ q.results[i].status = "error" => q.results[i].eventsCount = Undefined
         /\ sum.totalDates = Len(q.results)
         /\ sum.totalDates = sum.downloaded + sum.skipped + sum.errors
         /\ sum.downloaded = n("downloaded")
         /\ sum.skipped = n("skipped")
         /\ sum.errors = n("error")
         /\ sum.empty = Cardinality(zero)
         /\ \A i \in zero:
              /\ q.results[i].status # "error"
              /\ q.results[i].status = "skipped" =>
                   NumEvents(files[EntryPath(q.results[i])]) = 0

\* the report of a repeated /download has a skipped entry for a shard
\* without event and an error entry: 2 entries, 1 skipped, 1 empty, 1 error
C34_Witness ==
  \E r \in Reqs:
    LET q == req[r]
    IN /\ q.kind = "download" /\ q.pc = "done" /\ q.resp.code = 200
       /\ q.resp.summary = [totalDates |-> 2, downloaded |-> 0, skipped |-> 1,
                            empty |-> 1, errors |-> 1]
       /\ q.results[1].status = "skipped" /\ q.results[1].eventsCount = 0
       /\ q.results[2].status = "error"

\* ---------------------------------------------------------------- termination

\* the server runs and the handler of r waits at the given position
Awaits(r, pc) == phase = "serving" /\ req[r].pc = pc

\* Node's event loop runs every continuation that is ready: the remote
\* answers each call it was sent, with a page or with a rejection; the
\* handler goes on after the await of a download; the read stream delivers
\* its chunks and its end.
\* Weak fairness of the first three is written out with the condition under
\* which the action is enabled (Awaits), to spare the evaluation of ENABLED.
EventLoop ==
  /\ []<>(~Awaits("r1", "fetch")) \/ []<><<FetchOk("r1") \/ FetchFail("r1")>>_vars
  /\ []<>(~Awaits("r1", "resume")) \/ []<><<Resume("r1")>>_vars
  /\ []<>(~(Awaits("r1", "scan") /\ ~req["r1"].rd.open)) \/ []<><<ScanNext("r1")>>_vars
  /\ WF_vars(ScanRead("r1"))
  /\ WF_vars(ScanEof("r1"))

\* the client of SpecSession, served by a process whose event loop runs
SpecTermination == InitSession /\ [][NextSession]_vars /\ EventLoop

\* the request in the slot has arrived and is not yet answered
InFlight(r) == req[r].pc \in {"fetch", "resume", "scan"}

\* position (gi, di) comes before position (gj, dj) in group-major order
Before(gi, di, gj, dj) == gi < gj \/ (gi = gj /\ di < dj)

\* the step of r that is not the arrival of a new request keeps the shard
\* order: the position never goes back; a drain that starts after another
\* is for a later shard; a page with a continuation token is followed by
\* the call for the next page of the same shard, and only a page without
\* token ends the drain with the shard published
KeepsOrder(r) ==
  LET q == req[r]
      n == req'[r]
  IN (StepOf(r) /\ ~ArrivalStep(r)) =>
       /\ ~Before(n.gi, n.di, q.gi, q.di)
       /\ (q.pc = "resume" /\ n.pc = "fetch") => Before(q.gi, q.di, n.gi, n.di)
       /\ (q.pc = "fetch" /\ Len(n.returned) > Len(q.returned)) =>
            LET token == n.returned[Len(n.returned)]
            IN IF token # NoToken
               THEN /\ n.pc = "fetch" /\ n.token = token
                    /\ n.gi = q.gi /\ n.di = q.di
                    /\ files' = files
               ELSE n.pc = "resume" /\ n.dl.ok
       /\ (q.pc = "fetch" /\ n.pc = "fetch") => Len(n.returned) > Len(q.returned)

\* the dates of a window ascend
Ascending(dates) == \A i, j \in DOMAIN dates: i < j => dates[i] < dates[j]

\* C35: every /download eventually returns its report and every /search its
\* result or its failure, when the remote answers every call (with a last
\* page after finitely many, or with a failure); the drain of a shard goes on
\* while the remote returns a continuation token; the shards of a request
\* are processed one at a time, group-major and date-ascending.
C35_Terminates ==
  /\ \A r \in Reqs: InFlight(r) ~> (req[r].pc = "done")
  /\ [][\A r \in Reqs: KeepsOrder(r)]_vars
  /\ [](\A r \in Reqs:
          InFlight(r) => Ascending(getDateRange(req[r].startTime, req[r].endTime)))

\* a /download of three days has its report: the second shard failed, the
\* third was drained in two pages
C35_Witness ==
  \E r \in Reqs:
    LET q == req[r]
    IN /\ q.kind = "download" /\ q.pc = "done" /\ q.resp.code = 200
       /\ Len(q.results) = 3
       /\ q.results[2].status = "error"
       /\ q.results[3].status = "downloaded"
       /\ Len(q.returned) = 2

\* ---------------------------------------------------------------- a query that fails

\* the search of r was answered with the failure
SearchFailed(r) ==
  req[r].kind = "search" /\ req[r].pc = "done" /\ req[r].resp.code = 500

\* the step leaves every shard that exists as it is
KeepsShards == \A p \in DOMAIN files: p \in DOMAIN files' /\ files'[p] = files[p]

\* C36: a /search whose download of a shard failed answers with the failure
\* in the handler's next step, which changes nothing in the cache: the
\* shards it downloaded before stay published, the shards after the failed
\* one are not attempted. No step of a /search changes a shard that exists:
\* the only change is the publication of the shard it drains, which was
\* absent. When the failure is answered, every shard of the path list
\* exists, no temporary file is left, and on a cache that was empty when the
\* query arrived the shards that exist are exactly those of the path list.
C36_FailureKeepsShards ==
  /\ [][\A r \in Reqs:
         (StepOf(r) /\ ~ArrivalStep(r) /\ req[r].kind = "search") =>
           /\ KeepsShards
           /\ FailedResumeStep(r) =>
                /\ SearchFailed(r)'
                /\ files' = files /\ tmps' = tmps /\ dirs' = dirs
                /\ req'[r].required = req[r].required
                /\ req'[r].gi = req[r].gi /\ req'[r].di = req[r].di
           /\ files' # files =>
                /\ PublishStep(r)
                /\ DOMAIN files' = (DOMAIN files) \cup {CurPath(req[r])}
                /\ CurPath(req[r]) \notin DOMAIN files]_vars
  /\ [](\A r \in Reqs:
          SearchFailed(r) =>
            /\ Range(req[r].required) \subseteq DOMAIN files
            /\ CurPath(req[r]) \notin DOMAIN files
            /\ tmps = <<>>
            /\ req[r].prev = <<>> => DOMAIN files = Range(req[r].required))

\* a /search on an empty cache has downloaded the first shard of its window,
\* failed on the second and is answered with the failure: the first shard
\* is there with its events, and it is the only one
C36_Witness ==
  \E r \in Reqs:
    LET q == req[r]
    IN /\ SearchFailed(r)
       /\ q.prev = <<>>
       /\ q.gi = 1 /\ q.di = 2
       /\ Len(getDateRange(q.startTime, q.endTime)) = 3
       /\ Len(q.required) = 1
       /\ DOMAIN files = {q.required[1]}
       /\ files[q.required[1]] # <<>>

\* ---------------------------------------------------------------- repeated groups

\* how often the shards of a set of paths store the event
StoredCount(paths, e) ==
  Cardinality({pi \in UNION {{<<p, i>> : i \in DOMAIN files[p]} :
                                p \in paths \cap DOMAIN files} :
                 /\ Parses(files[pi[1]][pi[2]])
                 /\ Parse(files[pi[1]][pi[2]]) = e})

\* the handler of r called downloadAndCacheLogs in this step
DrainStart(r) ==
  StepOf(r) /\ req[r].pc # "fetch" /\ req'[r].pc = "fetch"

\* C37: the path list of a /search has no path twice, also when its groups
\* repeat or share a directory; the result holds each event at most as often
\* as the shards of the window store it; and the /search downloads a shard
\* at most once: it starts a drain only for a path that is not in its path
\* list and does not exist.
C37_ScansEachPathOnce ==
  /\ [](\A r \in Reqs:
          /\ req[r].kind = "search" =>
               \A i, j \in DOMAIN req[r].required:
                  i # j => req[r].required[i] # req[r].required[j]
          /\ Answered(r) =>
               \A e \in Range(req[r].resp.events):
                  Occurrences(req[r].resp.events, e)
                    <= StoredCount(Range(ShardPaths(req[r])), e))
  /\ [][\A r \in Reqs:
         (DrainStart(r) /\ req'[r].kind = "search") =>
           /\ CurPath(req'[r]) \notin Range(req'[r].required)
           /\ CurPath(req'[r]) \notin DOMAIN files']_vars

\* a /search for the same group twice over two days is answered: two paths,
\* two remote calls, and the three events of the two days, one of them
\* twice as it is stored
C37_Witness ==
  \E r \in Reqs:
    LET q == req[r]
    IN /\ Answered(r)
       /\ q.groups = <<GC, GC>>
       /\ q.prev = <<>>
       /\ Len(q.required) = 2
       /\ Len(q.resp.events) = 3
       /\ \E e \in Range(q.resp.events): Occurrences(q.resp.events, e) = 2

\* ---------------------------------------------------------------- an error in pruneCache

\* the entries of a group directory that a run of pruneCache at clock' has
\* to remove, before the run and after it
OldBefore(dir) == {n \in EntryNames(World, dir) : OlderThanCutoff(n, clock')}
OldAfter(dir) ==
  {n \in EntryNames([files |-> files', tmps |-> tmps', strays |-> strays'], dir) :
     OlderThanCutoff(n, clock')}
KeptYoung(dir) ==
  \A n \in EntryNames(World, dir) \ OldBefore(dir):
     n \in EntryNames([files |-> files', tmps |-> tmps', strays |-> strays'], dir)

\* C38: a run of pruneCache in which one call inside the try block throws
\* returns, and index.js goes on to load the server; at most one group
\* directory is left with files older than the cutoff (the one of the
\* error, whose remaining files were not visited); every other directory
\* has lost all its files older than the cutoff and no other; no directory
\* is removed, no file that is not older than the cutoff is removed, no
\* content changes, and prunedCount is the number of files removed.
C38_PruneErrorConfined ==
  [][PruneStep =>
       /\ phase' = "starting"
       /\ dirs' = dirs /\ root' = root
       /\ \A p \in DOMAIN files': p \in DOMAIN files /\ files'[p] = files[p]
       /\ \A p \in DOMAIN tmps': p \in DOMAIN tmps /\ tmps'[p] = tmps[p]
       /\ strays' \subseteq strays
       /\ \A e \in strays \ strays': ~e.atRoot /\ OlderThanCutoff(e.name, clock')
       /\ \A d \in dirs: KeptYoung(d)
       /\ Cardinality({d \in dirs : OldAfter(d) # {}}) <= 1
       /\ prunedCount' = Cardinality((DOMAIN files) \ DOMAIN files')
                          + Cardinality((DOMAIN tmps) \ DOMAIN tmps')
                          + Cardinality(strays \ strays')]_vars

\* pruneCache has run twelve days after the epoch and removed two files,
\* while the directory of the group a/b still holds three of its four files
\* older than the cutoff: the two removed are one old file of that
\* directory, visited before the unlink that threw, and the old shard of
\* the group c
C38_Witness ==
  /\ phase = "starting"
  /\ clock = 12 * DayMs + 5
  /\ prunedCount = 2
  /\ <<DirA, 1>> \in DOMAIN files
  /\ Stray(FALSE, DirA, IsoDate(1)) \in strays
  /\ Stray(FALSE, DirA, <<"1", "9", "7", "0", "-", "1", "-", "2">> \o DotLog) \in strays
  /\ \A p \in DOMAIN files: p[1] = DirA

====
